---- MODULE Spec2Model ----
(***************************************************************************)
(* Verification model of the dubbing core of VideoLingo:                   *)
(*   core/_6_gen_sub.py      get_sentence_timestamps, align_timestamp      *)
(*   core/_8_2_dub_chunks.py calc_if_too_fast, merge_rows,                 *)
(*                           analyze_subtitle_timing_and_speed,            *)
(*                           process_cutoffs                               *)
(*   core/_10_gen_audio.py   process_chunk, adjust_audio_speed,            *)
(*                           generate_tts_audio, merge_chunks              *)
(*   core/utils/decorator.py check_file_exists                             *)
(*   core/tts_backend/tts_main.py  tts_main                                *)
(*                                                                         *)
(* Times are integers in units of 0.1 s.  Speed factors are integers in    *)
(* units of 0.001 (the resolution process_chunk rounds to).  Durations of  *)
(* audio files are integers in milliseconds (the resolution of pydub).     *)
(***************************************************************************)
EXTENDS Integers, Sequences, FiniteSets, TLC

VARIABLES
    \* ---- _8_2_dub_chunks.py: the task table and the scan of process_cutoffs
    df,          \* the rows of the DataFrame, one record per subtitle line
    whole_dur,   \* get_audio_duration(_RAW_AUDIO_FILE)
    idx,         \* the scan index of process_cutoffs
    ppc,         \* dub_chunks_main: "loaded","analyzed","scan","done","saved"
    group,       \* the lines the last scan step handled: [first, count]
    final_df,    \* the persisted chunk rows: [number, lines]
    \* ---- _10_gen_audio.py: process_chunk
    chunk_df,    \* the rows of one chunk
    speed_factor,\* the returned speed factor
    keep_gaps,   \* the returned gap policy
    regime,      \* the branch of process_chunk that was taken (0 = not called)
    \* ---- _6_gen_sub.py: get_sentence_timestamps and align_timestamp
    df_words,    \* recognizer words: [text, start, end]
    df_sentences,\* the subtitle lines' Source texts
    full_words_str,
    position_to_word_idx,
    current_pos, \* the cursor
    sent_i,      \* index of the sentence the loop is at
    time_stamp_list,
    match_pos,   \* search_pos at each line's match (-1 for an empty line)
    timestamp,   \* the column df_trans_time['timestamp']
    post_i,      \* loop index of the post-pass
    files_written,
    apc,         \* position of align_timestamp
    \* ---- _10_gen_audio.py: adjust_audio_speed
    input_duration,  \* get_audio_duration(input_file), ms
    atempo_factor,   \* the speed_factor argument, in 0.001
    attempt,         \* the loop variable of the retry loop
    output_duration, \* get_audio_duration(output_file) after ffmpeg, ms
    output_file,     \* duration of the file at output_file, ms (-1: no file)
    adj_pc,          \* "call","copied","trimmed","accepted","drift","failed"
    \* ---- _10_gen_audio.py: merge_chunks (with chunk_df, speed_factor, keep_gaps)
    tasks_df,          \* the rows of the task table, with their raw clips
    index,             \* the row the outer loop is at
    chunk_start_index,
    row_i,             \* the row of the chunk the inner loop is at
    chunk_start_time,  \* ms
    chunk_end_time,    \* ms
    cur_time,          \* the time pointer: [w, n, d] is w + n/d ms, 0 <= n < d
    new_sub_times,     \* the column new_sub_times: per row, a list of [s, e]
    seg_files,         \* per row, the durations in ms of its output files
    rpc,               \* "scan","rows","rendered","done","error"
    \* ---- _10_gen_audio.py: generate_tts_audio
    task_result,       \* per row, what process_row does: [ok, dur]
    real_dur_col,      \* the column tasks_df['real_dur']
    warm_i,            \* the row the warm-up loop is at
    sub_i,             \* the row the submit loop is at
    futures,           \* per row: "none","queued","running","done","collected"
    copies,            \* per row, the tasks_df.copy() handed to its worker
    max_workers,
    row_calls,         \* per row, the phases in which process_row was called for it
    gpc,               \* "warmup","submit","collect","returned","raised"
    \* ---- utils/decorator.py: check_file_exists around gen_audio_main
    path_exists,       \* os.path.exists(_10_GEN_AUDIO)
    wrapper_calls,     \* how often the wrapped stage has been called
    body_runs,         \* how often the body of the stage has been entered
    stage_work,        \* how many steps of the body have changed the stage's files
    wpc,               \* "ready","tts","merge","save"
    \* ---- tts_backend/tts_main.py: tts_main
    tts_text,          \* the cleaned text: "empty","single","normal"
    save_as,           \* duration in ms of the file at save_as (-1: no file)
    tts_attempt,       \* the loop variable attempt
    failures,          \* how the attempts so far failed
    text_corrected,    \* the text was replaced by the one ask_gpt returned
    backend_calls,     \* how often the synthesis backend has been invoked
    gpt_requests,      \* the values of attempt at which ask_gpt was called
    tpc                \* "call","loop","returned","raised"

planVars  == <<df, whole_dur, idx, ppc, group, final_df>>
solveVars == <<chunk_df, speed_factor, keep_gaps, regime>>
alignVars == <<df_words, df_sentences, full_words_str, position_to_word_idx,
               current_pos, sent_i, time_stamp_list, match_pos, timestamp,
               post_i, files_written, apc>>
adjustVars == <<input_duration, atempo_factor, attempt, output_duration,
                output_file, adj_pc>>
renderVars == <<tasks_df, index, chunk_start_index, row_i, chunk_start_time,
                chunk_end_time, cur_time, new_sub_times, seg_files, rpc>>
earlyVars == <<planVars, solveVars, alignVars>>
ttsVars == <<task_result, real_dur_col, warm_i, sub_i, futures, copies,
             max_workers, row_calls, gpc>>
gateVars == <<path_exists, wrapper_calls, body_runs, stage_work, wpc>>
synthVars == <<tts_text, save_as, tts_attempt, failures, text_corrected,
               backend_calls, gpt_requests, tpc>>
laterVars == <<adjustVars, renderVars, ttsVars, gateVars, synthVars>>
vars == <<planVars, solveVars, alignVars, laterVars>>

----------------------------------------------------------------------------
(* Bounds of the model *)
MaxLines == 3

(* Configuration values read with load_key *)
GLOBAL_TOLERANCE == 5
accept_speed == 1200
MAX_MERGE_COUNT == 5

(* Input values, in 0.1 s *)
Durations == {10, 20}
Gaps      == {-2, 0, 3, 5}
EstDurs   == {5, 21, 60}

Min(a, b) == IF a < b THEN a ELSE b

----------------------------------------------------------------------------
(* _8_2_dub_chunks.py *)

\* calc_if_too_fast with the slow test ahead of the fast tests
calc_if_too_fast_slow_first(est_dur, tol_dur, duration, tolerance) ==
    IF est_dur < duration - tolerance THEN -1
    ELSE IF est_dur * 1000 > tol_dur * accept_speed THEN 2
    ELSE IF est_dur > tol_dur THEN 1
    ELSE 0

\* est_dur / accept_speed > tol_dur, with accept_speed in thousandths
calc_if_too_fast(est_dur, tol_dur, duration, tolerance) ==
    IF est_dur * 1000 > tol_dur * accept_speed THEN 2
    ELSE IF est_dur > tol_dur THEN 1
    ELSE IF est_dur < duration - tolerance THEN -1
    ELSE 0

\* (dt2 - dt1).total_seconds()
time_diff_seconds(t1, t2) == t2 - t1

SetCut_retimed(d, i) == [d EXCEPT ![i].cut_off = 1, ![i].tol_dur = d[i].duration]

SetCut(d, i) == [d EXCEPT ![i].cut_off = 1]

\* The while loop of merge_rows (rows are 1-based here: start is start_idx + 1).
\* Returns [df, count].
RECURSIVE merge_loop(_, _, _, _, _, _)
merge_loop(d, start, merge_count, est, tol, dur) ==
    IF merge_count < MAX_MERGE_COUNT /\ (start - 1 + merge_count) < Len(d)
    THEN LET next_row == d[start + merge_count]
             est2 == est + next_row.est_dur
             tol2 == tol + next_row.tol_dur
             dur2 == dur + next_row.duration
             flag == calc_if_too_fast(est2, tol2, dur2, next_row.tolerance)
         IN IF flag <= 0 \/ merge_count = 2
            THEN [df |-> SetCut(d, start + merge_count), count |-> merge_count + 1]
            ELSE merge_loop(d, start, merge_count + 1, est2, tol2, dur2)
    ELSE IF merge_count >= MAX_MERGE_COUNT \/ (start - 1 + merge_count) >= Len(d)
         THEN [df |-> SetCut(d, start + merge_count - 1), count |-> merge_count]
         ELSE [df |-> d, count |-> merge_count]

\* merge_rows without the forced cut after the loop
RECURSIVE merge_loop_unforced(_, _, _, _, _, _)
merge_loop_unforced(d, start, merge_count, est, tol, dur) ==
    IF merge_count < MAX_MERGE_COUNT /\ (start - 1 + merge_count) < Len(d)
    THEN LET next_row == d[start + merge_count]
             est2 == est + next_row.est_dur
             tol2 == tol + next_row.tol_dur
             dur2 == dur + next_row.duration
             flag == calc_if_too_fast(est2, tol2, dur2, next_row.tolerance)
         IN IF flag <= 0 \/ merge_count = 2
            THEN [df |-> SetCut(d, start + merge_count), count |-> merge_count + 1]
            ELSE merge_loop_unforced(d, start, merge_count + 1, est2, tol2, dur2)
    ELSE [df |-> d, count |-> merge_count]

merge_rows_unforced(d, start, merge_count) ==
    merge_loop_unforced(d, start, merge_count,
                        d[start].est_dur, d[start].tol_dur, d[start].duration)

\* merge_rows with the early stop at the second absorbed line left out
RECURSIVE merge_loop_no_early_stop(_, _, _, _, _, _)
merge_loop_no_early_stop(d, start, merge_count, est, tol, dur) ==
    IF merge_count < MAX_MERGE_COUNT /\ (start - 1 + merge_count) < Len(d)
    THEN LET next_row == d[start + merge_count]
             est2 == est + next_row.est_dur
             tol2 == tol + next_row.tol_dur
             dur2 == dur + next_row.duration
             flag == calc_if_too_fast(est2, tol2, dur2, next_row.tolerance)
         IN IF flag <= 0
            THEN [df |-> SetCut(d, start + merge_count), count |-> merge_count + 1]
            ELSE merge_loop_no_early_stop(d, start, merge_count + 1, est2, tol2, dur2)
    ELSE IF merge_count >= MAX_MERGE_COUNT \/ (start - 1 + merge_count) >= Len(d)
         THEN [df |-> SetCut(d, start + merge_count - 1), count |-> merge_count]
         ELSE [df |-> d, count |-> merge_count]

merge_rows_no_early_stop(d, start, merge_count) ==
    merge_loop_no_early_stop(d, start, merge_count,
                             d[start].est_dur, d[start].tol_dur, d[start].duration)

\* merge_rows with the running estimate started at zero
merge_rows_headless(d, start, merge_count) ==
    merge_loop(d, start, merge_count, 0, d[start].tol_dur, d[start].duration)

merge_rows(d, start, merge_count) ==
    merge_loop(d, start, merge_count,
               d[start].est_dur, d[start].tol_dur, d[start].duration)

\* A row as loaded from the task table, before the analysis
RawRow(s, e, est) ==
    [start |-> s, end |-> e, duration |-> e - s, est_dur |-> est,
     gap |-> 0, tolerance |-> 0, tol_dur |-> 0, if_too_fast |-> 0, cut_off |-> 0]

\* The tables of n lines laid out from the chosen durations, gaps and
\* estimated durations; the last gap fixes the length of the raw audio.
RECURSIVE Tables(_)
Tables(n) ==
    IF n = 0 THEN {[rows |-> <<>>, t |-> 0, lastgap |-> 0]}
    ELSE {[rows |-> Append(p.rows, RawRow(p.t + p.lastgap, p.t + p.lastgap + du, es)),
           t |-> p.t + p.lastgap + du, lastgap |-> g] :
              p \in Tables(n - 1), du \in Durations, g \in Gaps, es \in EstDurs}

AnalyzedGap(d, w, i) ==
    IF i < Len(d) THEN time_diff_seconds(d[i].end, d[i + 1].start)
    ELSE w - d[i].end

\* the tolerance clamped at zero
Tolerance_clamped(gap) == IF gap < 0 THEN 0 ELSE Min(gap, GLOBAL_TOLERANCE)

Tolerance(gap) == Min(gap, GLOBAL_TOLERANCE)

TolDur(duration, tolerance) == duration + tolerance

AnalyzedRow(d, w, i) ==
    LET g  == AnalyzedGap(d, w, i)
        to == Tolerance(g)
        td == TolDur(d[i].duration, to)
    IN [d[i] EXCEPT !.gap = g, !.tolerance = to, !.tol_dur = td,
                    !.if_too_fast = calc_if_too_fast(d[i].est_dur, td, d[i].duration, to)]

PlanInit ==
    /\ \E n \in 1..MaxLines : \E tb \in Tables(n) :
          /\ df = tb.rows
          /\ whole_dur = tb.t + tb.lastgap
    /\ idx = 0
    /\ ppc = "loaded"
    /\ group = [first |-> 0, count |-> 0]
    /\ final_df = <<>>

\* Longer tables from fewer values, for the scan of process_cutoffs
MaxScanLines == 5
ScanDurations == {10}
ScanGaps      == {0, 5}
ScanEstDurs   == {5, 12, 60}

RECURSIVE ScanTables(_)
ScanTables(n) ==
    IF n = 0 THEN {[rows |-> <<>>, t |-> 0, lastgap |-> 0]}
    ELSE {[rows |-> Append(p.rows, RawRow(p.t + p.lastgap, p.t + p.lastgap + du, es)),
           t |-> p.t + p.lastgap + du, lastgap |-> g] :
              p \in ScanTables(n - 1), du \in ScanDurations, g \in ScanGaps,
              es \in ScanEstDurs}

ScanInit ==
    /\ \E n \in 1..MaxScanLines : \E tb \in ScanTables(n) :
          /\ df = tb.rows
          /\ whole_dur = tb.t + tb.lastgap
    /\ idx = 0
    /\ ppc = "loaded"
    /\ group = [first |-> 0, count |-> 0]
    /\ final_df = <<>>

\* analyze_subtitle_timing_and_speed
Analyze ==
    /\ ppc = "loaded"
    /\ df' = [i \in 1..Len(df) |-> AnalyzedRow(df, whole_dur, i)]
    /\ ppc' = "analyzed"
    /\ UNCHANGED <<whole_dur, idx, group, final_df>>

\* the initialization with a strict comparison
InitCutoffs_strict ==
    /\ ppc = "analyzed"
    /\ df' = [i \in 1..Len(df) |->
                [df[i] EXCEPT !.cut_off = IF df[i].gap > GLOBAL_TOLERANCE THEN 1 ELSE 0]]
    /\ idx' = 0
    /\ ppc' = "scan"
    /\ UNCHANGED <<whole_dur, group, final_df>>

\* process_cutoffs, up to the scan loop
InitCutoffs ==
    /\ ppc = "analyzed"
    /\ df' = [i \in 1..Len(df) |->
                [df[i] EXCEPT !.cut_off = IF df[i].gap >= GLOBAL_TOLERANCE THEN 1 ELSE 0]]
    /\ idx' = 0
    /\ ppc' = "scan"
    /\ UNCHANGED <<whole_dur, group, final_df>>

\* one iteration of the scan: the row is already a boundary
ScanSkip ==
    /\ ppc = "scan" /\ idx < Len(df)
    /\ df[idx + 1].cut_off = 1
    /\ idx' = idx + 1
    /\ group' = [first |-> idx + 1, count |-> 1]
    /\ UNCHANGED <<df, whole_dur, ppc, final_df>>

\* one iteration of the scan: the last row
ScanLast ==
    /\ ppc = "scan" /\ idx < Len(df)
    /\ df[idx + 1].cut_off # 1
    /\ idx + 1 >= Len(df)
    /\ df' = SetCut(df, idx + 1)
    /\ group' = [first |-> idx + 1, count |-> 1]
    /\ ppc' = "done"
    /\ UNCHANGED <<whole_dur, idx, final_df>>

\* one iteration of the scan: this row and the next are normal or slow
ScanSingle ==
    /\ ppc = "scan" /\ idx < Len(df)
    /\ df[idx + 1].cut_off # 1
    /\ idx + 1 < Len(df)
    /\ df[idx + 1].if_too_fast <= 0 /\ df[idx + 2].if_too_fast <= 0
    /\ df' = SetCut(df, idx + 1)
    /\ idx' = idx + 1
    /\ group' = [first |-> idx + 1, count |-> 1]
    /\ UNCHANGED <<whole_dur, ppc, final_df>>

\* one iteration of the scan: this row or the next is too fast
ScanMerge ==
    /\ ppc = "scan" /\ idx < Len(df)
    /\ df[idx + 1].cut_off # 1
    /\ idx + 1 < Len(df)
    /\ ~(df[idx + 1].if_too_fast <= 0 /\ df[idx + 2].if_too_fast <= 0)
    /\ LET r == merge_rows(df, idx + 1, 1)
       IN /\ df' = r.df
          /\ idx' = idx + r.count
          /\ group' = [first |-> idx + 1, count |-> r.count]
    /\ UNCHANGED <<whole_dur, ppc, final_df>>

\* the scan loop ends
ScanExit ==
    /\ ppc = "scan" /\ idx >= Len(df)
    /\ ppc' = "done"
    /\ UNCHANGED <<df, whole_dur, idx, group, final_df>>

\* the rows of final_df: the positions of the cut_off = 1 lines, in order
RECURSIVE CutRows(_, _)
CutRows(d, n) ==
    IF n = 0 THEN <<>>
    ELSE IF d[n].cut_off = 1 THEN Append(CutRows(d, n - 1), n)
         ELSE CutRows(d, n - 1)

\* df.iloc[start_original_idx:end_original_idx]: from the row of chunk i to
\* the row before the row of chunk i + 1, or to the end of the table
\* (positions are 1-based here)
SliceRows(d, oi, i) ==
    LET first == oi[i]
        last  == IF i + 1 <= Len(oi) THEN oi[i + 1] - 1 ELSE Len(d)
    IN [k \in 1..(last - first + 1) |-> first + k - 1]

\* dub_chunks_main after process_cutoffs: the rows with cut_off = 1 are
\* kept, each gets the subtitle lines of its slice (a line's text is named
\* by its number, which is its position in the table), and the table is saved
Persist ==
    /\ ppc = "done"
    /\ LET original_indices == CutRows(df, Len(df))
       IN final_df' = [i \in 1..Len(original_indices) |->
                         [number |-> original_indices[i],
                          lines |-> SliceRows(df, original_indices, i)]]
    /\ ppc' = "saved"
    /\ UNCHANGED <<df, whole_dur, idx, group>>

----------------------------------------------------------------------------
(* _10_gen_audio.py: process_chunk *)

MaxChunkLen == 2
min_speed == 1000
speed_var_error == 1

ChunkDurations == {1, 20, 30}
ChunkGaps      == {-2, 0, 2, 10}
RealDurs       == {-10, 5, 10, 20, 30}

\* one row of the task table as process_chunk reads it
ChunkRow(du, g, rd) ==
    [real_dur |-> rd, gap |-> g, tolerance |-> Tolerance(g),
     tol_dur |-> TolDur(du, Tolerance(g))]

ChunkRows == {ChunkRow(du, g, rd) : du \in ChunkDurations, g \in ChunkGaps, rd \in RealDurs}

RECURSIVE ChunkTables(_)
ChunkTables(n) ==
    IF n = 0 THEN {<<>>}
    ELSE {Append(c, r) : c \in ChunkTables(n - 1), r \in ChunkRows}

RECURSIVE SumSeq(_)
\* Series.sum()
SumSeq(s) == IF s = <<>> THEN 0 ELSE s[1] + SumSeq(Tail(s))

RealDurCol(c) == [i \in 1..Len(c) |-> c[i].real_dur]
TolDurCol(c)  == [i \in 1..Len(c) |-> c[i].tol_dur]
GapCol(c)     == [i \in 1..Len(c) |-> c[i].gap]

\* a quotient of floats: [n, d] with d >= 0; d = 0 stands for inf (n > 0),
\* -inf (n < 0) or nan (n = 0), as the float division gives
Quot(num, den) ==
    IF den < 0 THEN [n |-> -num, d |-> -den] ELSE [n |-> num, d |-> den]

\* q > min_speed (false for nan and -inf)
ExceedsMin(q, m) == IF q.d = 0 THEN q.n > 0 ELSE q.n * 1000 > m * q.d

\* min(min_speed, q)
MaxSpeed_least(m, q) == IF ExceedsMin(q, m) THEN [n |-> m, d |-> 1000] ELSE q

\* max(min_speed, q)
MaxSpeed(m, q) == IF ExceedsMin(q, m) THEN q ELSE [n |-> m, d |-> 1000]

RoundHalfEven(a, b) ==
    LET q == a \div b
        r == a % b
    IN IF 2 * r < b THEN q
       ELSE IF 2 * r > b THEN q + 1
       ELSE IF q % 2 = 0 THEN q ELSE q + 1

\* round(speed_factor, 3), in thousandths
Round3(q) ==
    IF q.d = 0
    THEN [kind |-> IF q.n > 0 THEN "inf" ELSE IF q.n < 0 THEN "-inf" ELSE "nan", milli |-> 0]
    ELSE [kind |-> "num", milli |-> RoundHalfEven(1000 * q.n, q.d)]

\* x / accept < y, with accept in thousandths
FitsAt(x, accept, y) == x * 1000 < y * accept

\* process_chunk with the second and third tests in the wrong order
process_chunk_reordered(c, accept, minsp) ==
    LET chunk_durs == SumSeq(RealDurCol(c))
        tol_durs   == SumSeq(TolDurCol(c))
        durations  == tol_durs - c[Len(c)].tolerance
        all_gaps   == SumSeq(GapCol(c)) - c[Len(c)].gap
    IN IF FitsAt(chunk_durs + all_gaps, accept, durations)
       THEN [regime |-> 1, keep_gaps |-> TRUE,
             exact |-> MaxSpeed(minsp, Quot(chunk_durs + all_gaps, durations - speed_var_error)),
             speed |-> Round3(MaxSpeed(minsp, Quot(chunk_durs + all_gaps, durations - speed_var_error)))]
       ELSE IF FitsAt(chunk_durs + all_gaps, accept, tol_durs)
       THEN [regime |-> 3, keep_gaps |-> TRUE,
             exact |-> MaxSpeed(minsp, Quot(chunk_durs + all_gaps, tol_durs - speed_var_error)),
             speed |-> Round3(MaxSpeed(minsp, Quot(chunk_durs + all_gaps, tol_durs - speed_var_error)))]
       ELSE IF FitsAt(chunk_durs, accept, durations)
       THEN [regime |-> 2, keep_gaps |-> FALSE,
             exact |-> MaxSpeed(minsp, Quot(chunk_durs, durations - speed_var_error)),
             speed |-> Round3(MaxSpeed(minsp, Quot(chunk_durs, durations - speed_var_error)))]
       ELSE [regime |-> 4, keep_gaps |-> FALSE,
             exact |-> Quot(chunk_durs, tol_durs - speed_var_error),
             speed |-> Round3(Quot(chunk_durs, tol_durs - speed_var_error))]

\* process_chunk with the floor applied in the last branch too
process_chunk_floored(c, accept, minsp) ==
    LET chunk_durs == SumSeq(RealDurCol(c))
        tol_durs   == SumSeq(TolDurCol(c))
        durations  == tol_durs - c[Len(c)].tolerance
        all_gaps   == SumSeq(GapCol(c)) - c[Len(c)].gap
    IN IF FitsAt(chunk_durs + all_gaps, accept, durations)
       THEN [regime |-> 1, keep_gaps |-> TRUE,
             exact |-> MaxSpeed(minsp, Quot(chunk_durs + all_gaps, durations - speed_var_error)),
             speed |-> Round3(MaxSpeed(minsp, Quot(chunk_durs + all_gaps, durations - speed_var_error)))]
       ELSE IF FitsAt(chunk_durs, accept, durations)
       THEN [regime |-> 2, keep_gaps |-> FALSE,
             exact |-> MaxSpeed(minsp, Quot(chunk_durs, durations - speed_var_error)),
             speed |-> Round3(MaxSpeed(minsp, Quot(chunk_durs, durations - speed_var_error)))]
       ELSE IF FitsAt(chunk_durs + all_gaps, accept, tol_durs)
       THEN [regime |-> 3, keep_gaps |-> TRUE,
             exact |-> MaxSpeed(minsp, Quot(chunk_durs + all_gaps, tol_durs - speed_var_error)),
             speed |-> Round3(MaxSpeed(minsp, Quot(chunk_durs + all_gaps, tol_durs - speed_var_error)))]
       ELSE [regime |-> 4, keep_gaps |-> FALSE,
             exact |-> MaxSpeed(minsp, Quot(chunk_durs, tol_durs - speed_var_error)),
             speed |-> Round3(MaxSpeed(minsp, Quot(chunk_durs, tol_durs - speed_var_error)))]

process_chunk(c, accept, minsp) ==
    LET chunk_durs == SumSeq(RealDurCol(c))
        tol_durs   == SumSeq(TolDurCol(c))
        durations  == tol_durs - c[Len(c)].tolerance
        all_gaps   == SumSeq(GapCol(c)) - c[Len(c)].gap
    IN IF FitsAt(chunk_durs + all_gaps, accept, durations)
       THEN [regime |-> 1, keep_gaps |-> TRUE,
             exact |-> MaxSpeed(minsp, Quot(chunk_durs + all_gaps, durations - speed_var_error)),
             speed |-> Round3(MaxSpeed(minsp, Quot(chunk_durs + all_gaps, durations - speed_var_error)))]
       ELSE IF FitsAt(chunk_durs, accept, durations)
       THEN [regime |-> 2, keep_gaps |-> FALSE,
             exact |-> MaxSpeed(minsp, Quot(chunk_durs, durations - speed_var_error)),
             speed |-> Round3(MaxSpeed(minsp, Quot(chunk_durs, durations - speed_var_error)))]
       ELSE IF FitsAt(chunk_durs + all_gaps, accept, tol_durs)
       THEN [regime |-> 3, keep_gaps |-> TRUE,
             exact |-> MaxSpeed(minsp, Quot(chunk_durs + all_gaps, tol_durs - speed_var_error)),
             speed |-> Round3(MaxSpeed(minsp, Quot(chunk_durs + all_gaps, tol_durs - speed_var_error)))]
       ELSE [regime |-> 4, keep_gaps |-> FALSE,
             exact |-> Quot(chunk_durs, tol_durs - speed_var_error),
             speed |-> Round3(Quot(chunk_durs, tol_durs - speed_var_error))]

NoSpeed == [kind |-> "none", milli |-> 0]

SolveInit ==
    /\ \E n \in 1..MaxChunkLen : chunk_df \in ChunkTables(n)
    /\ speed_factor = NoSpeed
    /\ keep_gaps = TRUE
    /\ regime = 0

\* merge_chunks calls process_chunk on the rows of one chunk
Solve ==
    /\ regime = 0 /\ chunk_df # <<>>
    /\ LET r == process_chunk(chunk_df, accept_speed, min_speed)
       IN /\ speed_factor' = r.speed
          /\ keep_gaps' = r.keep_gaps
          /\ regime' = r.regime
    /\ UNCHANGED chunk_df

----------------------------------------------------------------------------
(* _6_gen_sub.py: get_sentence_timestamps, align_timestamp *)

MaxWords == 2
MaxSents == 3
OneSecond == 10

\* texts are sequences of one-character strings
WordTexts == {<<"a">>, <<"B", ".", "a">>}
SentTexts == {<<".">>, <<"a", " ">>, <<"A", " ", "b">>, <<"b", ".", "a">>}
WordGaps  == {0, 4, 10}
WordDurs  == {3}

IsSpace(c) == c = " "
IsWordChar(c) == c \in {"a", "b", "A", "B"}
ToLower(c) == IF c = "A" THEN "a" ELSE IF c = "B" THEN "b" ELSE c

\* re.sub(r'\s+', ' ', text)
CollapseSpaces(t) ==
    LET keep == {i \in 1..Len(t) : ~(IsSpace(t[i]) /\ i > 1 /\ IsSpace(t[i - 1]))}
        RECURSIVE pick(_)
        pick(i) == IF i > Len(t) THEN <<>>
                   ELSE IF i \in keep
                        THEN <<IF IsSpace(t[i]) THEN " " ELSE t[i]>> \o pick(i + 1)
                        ELSE pick(i + 1)
    IN pick(1)

KeepsChar(c) == IsWordChar(c) \/ IsSpace(c)

\* re.sub(r'[^\w\s]', '', text)
DropPunctuation(t) == SelectSeq(t, KeepsChar)

\* str.lower()
Lower(t) == [i \in 1..Len(t) |-> ToLower(t[i])]

RECURSIVE Strip(_)
\* str.strip()
Strip(t) ==
    IF t = <<>> THEN t
    ELSE IF IsSpace(t[1]) THEN Strip(Tail(t))
    ELSE IF IsSpace(t[Len(t)]) THEN Strip(SubSeq(t, 1, Len(t) - 1))
    ELSE t

remove_punctuation(t) == Strip(Lower(DropPunctuation(CollapseSpaces(t))))

NotSpace(c) == c # " "

\* remove_punctuation(sentence).replace(" ", "")
CleanSentence(t) == SelectSeq(remove_punctuation(t), NotSpace)

RECURSIVE BuildFull(_, _)
\* the word index: [str, map], map[p + 1] = index of the word that owns position p
BuildFull(words, k) ==
    IF k > Len(words) THEN [str |-> <<>>, map |-> <<>>]
    ELSE LET clean_word == remove_punctuation(words[k].text)
             rest == BuildFull(words, k + 1)
         IN [str |-> clean_word \o rest.str,
             map |-> [i \in 1..Len(clean_word) |-> k] \o rest.map]

\* full_words_str[pos : pos + n]
Slice(str, pos, n) == SubSeq(str, pos + 1, pos + n)

RECURSIVE search(_, _, _)
\* the while loop over search_pos; -1 when the loop ends without a match
search(str, clean, search_pos) ==
    IF search_pos <= Len(str) - Len(clean)
    THEN IF Slice(str, search_pos, Len(clean)) = clean THEN search_pos
         ELSE search(str, clean, search_pos + 1)
    ELSE -1

RECURSIVE WordLists(_)
\* recognizer words laid out in time
WordLists(n) ==
    IF n = 0 THEN {<<>>}
    ELSE {LET s == (IF w = <<>> THEN 0 ELSE w[Len(w)].end) + g
          IN Append(w, [text |-> t, start |-> s, end |-> s + du]) :
             w \in WordLists(n - 1), t \in WordTexts, g \in WordGaps, du \in WordDurs}

RECURSIVE SentLists(_)
SentLists(n) ==
    IF n = 0 THEN {<<>>}
    ELSE {Append(l, t) : l \in SentLists(n - 1), t \in SentTexts}

AlignInit ==
    /\ df_words \in WordLists(MaxWords)
    /\ \E n \in 1..MaxSents : df_sentences \in SentLists(n)
    /\ full_words_str = <<>>
    /\ position_to_word_idx = <<>>
    /\ current_pos = 0
    /\ sent_i = 1
    /\ time_stamp_list = <<>>
    /\ match_pos = <<>>
    /\ timestamp = <<>>
    /\ post_i = 1
    /\ files_written = FALSE
    /\ apc = "start"

\* get_sentence_timestamps: the word index is built
BuildIndex ==
    /\ apc = "start"
    /\ LET b == BuildFull(df_words, 1)
       IN /\ full_words_str' = b.str
          /\ position_to_word_idx' = b.map
    /\ current_pos' = 0
    /\ sent_i' = 1
    /\ time_stamp_list' = <<>>
    /\ apc' = "align"
    /\ UNCHANGED <<df_words, df_sentences, match_pos, timestamp, post_i, files_written>>

\* one iteration of the sentence loop: the cleaned sentence is empty
AlignEmpty ==
    /\ apc = "align" /\ sent_i <= Len(df_sentences)
    /\ CleanSentence(df_sentences[sent_i]) = <<>>
    /\ time_stamp_list' = Append(time_stamp_list, <<0, 0>>)
    /\ match_pos' = Append(match_pos, -1)
    /\ sent_i' = sent_i + 1
    /\ UNCHANGED <<df_words, df_sentences, full_words_str, position_to_word_idx,
                   current_pos, timestamp, post_i, files_written, apc>>

\* the iteration with the search restarted at the head of the word stream
AlignMatch_backtrack ==
    /\ apc = "align" /\ sent_i <= Len(df_sentences)
    /\ LET clean_sentence == CleanSentence(df_sentences[sent_i])
           sentence_len == Len(clean_sentence)
           search_pos == search(full_words_str, clean_sentence, 0)
       IN /\ clean_sentence # <<>>
          /\ search_pos # -1
          /\ LET start_word_idx == position_to_word_idx[search_pos + 1]
                 end_word_idx == position_to_word_idx[search_pos + sentence_len]
             IN time_stamp_list' = Append(time_stamp_list,
                    <<df_words[start_word_idx].start, df_words[end_word_idx].end>>)
          /\ current_pos' = search_pos + sentence_len
          /\ match_pos' = Append(match_pos, search_pos)
    /\ sent_i' = sent_i + 1
    /\ UNCHANGED <<df_words, df_sentences, full_words_str, position_to_word_idx,
                   timestamp, post_i, files_written, apc>>

\* one iteration of the sentence loop: a match is found
AlignMatch ==
    /\ apc = "align" /\ sent_i <= Len(df_sentences)
    /\ LET clean_sentence == CleanSentence(df_sentences[sent_i])
           sentence_len == Len(clean_sentence)
           search_pos == search(full_words_str, clean_sentence, current_pos)
       IN /\ clean_sentence # <<>>
          /\ search_pos # -1
          /\ LET start_word_idx == position_to_word_idx[search_pos + 1]
                 end_word_idx == position_to_word_idx[search_pos + sentence_len]
             IN time_stamp_list' = Append(time_stamp_list,
                    <<df_words[start_word_idx].start, df_words[end_word_idx].end>>)
          /\ current_pos' = search_pos + sentence_len
          /\ match_pos' = Append(match_pos, search_pos)
    /\ sent_i' = sent_i + 1
    /\ UNCHANGED <<df_words, df_sentences, full_words_str, position_to_word_idx,
                   timestamp, post_i, files_written, apc>>

\* the iteration that records an empty interval for an unmatched line and goes on
AlignFail_skip ==
    /\ apc = "align" /\ sent_i <= Len(df_sentences)
    /\ LET clean_sentence == CleanSentence(df_sentences[sent_i])
       IN /\ clean_sentence # <<>>
          /\ search(full_words_str, clean_sentence, current_pos) = -1
    /\ time_stamp_list' = Append(time_stamp_list, <<0, 0>>)
    /\ match_pos' = Append(match_pos, -1)
    /\ sent_i' = sent_i + 1
    /\ UNCHANGED <<df_words, df_sentences, full_words_str, position_to_word_idx,
                   current_pos, timestamp, post_i, files_written, apc>>

\* one iteration of the sentence loop: no match, ValueError is raised and
\* propagates out of align_timestamp
AlignFail ==
    /\ apc = "align" /\ sent_i <= Len(df_sentences)
    /\ LET clean_sentence == CleanSentence(df_sentences[sent_i])
       IN /\ clean_sentence # <<>>
          /\ search(full_words_str, clean_sentence, current_pos) = -1
    /\ apc' = "error"
    /\ UNCHANGED <<df_words, df_sentences, full_words_str, position_to_word_idx,
                   current_pos, sent_i, time_stamp_list, match_pos, timestamp,
                   post_i, files_written>>

\* get_sentence_timestamps returns; align_timestamp stores the column
AlignReturn ==
    /\ apc = "align" /\ sent_i > Len(df_sentences)
    /\ timestamp' = time_stamp_list
    /\ post_i' = 1
    /\ apc' = "post"
    /\ UNCHANGED <<df_words, df_sentences, full_words_str, position_to_word_idx,
                   current_pos, sent_i, time_stamp_list, match_pos, files_written>>

\* the iteration that closes every gap under one second, overlaps included
CloseGap_any(ts, i) ==
    LET delta_time == ts[i + 1][1] - ts[i][2]
    IN IF delta_time < OneSecond
       THEN [ts EXCEPT ![i] = <<ts[i][1], ts[i + 1][1]>>]
       ELSE ts

\* the new value of row i of the column in one iteration of the post-pass
CloseGap(ts, i) ==
    LET delta_time == ts[i + 1][1] - ts[i][2]
    IN IF 0 < delta_time /\ delta_time < OneSecond
       THEN [ts EXCEPT ![i] = <<ts[i][1], ts[i + 1][1]>>]
       ELSE ts

\* one iteration of the post-pass of align_timestamp
PostPass ==
    /\ apc = "post" /\ post_i <= Len(timestamp) - 1
    /\ timestamp' = CloseGap(timestamp, post_i)
    /\ post_i' = post_i + 1
    /\ UNCHANGED <<df_words, df_sentences, full_words_str, position_to_word_idx,
                   current_pos, sent_i, time_stamp_list, match_pos, files_written, apc>>

\* the rest of align_timestamp: the subtitle files are written
WriteFiles ==
    /\ apc = "post" /\ post_i > Len(timestamp) - 1
    /\ files_written' = TRUE
    /\ apc' = "done"
    /\ UNCHANGED <<df_words, df_sentences, full_words_str, position_to_word_idx,
                   current_pos, sent_i, time_stamp_list, match_pos, timestamp, post_i>>

----------------------------------------------------------------------------
(* _10_gen_audio.py: adjust_audio_speed *)

adjust_max_retries == 2

(* Input values: durations of the raw clip in ms, speed factors in 0.001,  *)
(* and the deviation in ms of ffmpeg's output from the theoretical length  *)
RawDurations  == {500, 2000, 3000, 6000}
AtempoFactors == {800, 1000, 1001, 1200, 1500}
FfmpegDrift   == {-40, 0, 26, 27, 40, 100, 101}

\* abs(speed_factor - 1.0) < 0.001 in double precision: of the factors
\* k/1000 only 1.000 and 1.001 satisfy it (1.001 - 1.0 < 0.001 < 1.0 - 0.999)
NearUnity(sp) == sp \in {1000, 1001}

\* int(expected_duration * 1000) with expected_duration = input / speed
TrimLength(raw, sp) == (raw * 1000) \div sp

\* output_duration >= expected_duration * 1.02
OverEnvelope(out, raw, sp) == out * sp >= raw * 1020

\* ... and input_duration < 3 and diff <= 0.1
ShouldTrim_shorter(out, raw, sp) ==
    /\ OverEnvelope(out, raw, sp)
    /\ raw < 2000
    /\ out * sp - raw * 1000 <= 100 * sp

ShouldTrim(out, raw, sp) ==
    /\ OverEnvelope(out, raw, sp)
    /\ raw < 3000
    /\ out * sp - raw * 1000 <= 100 * sp

\* elif output_duration >= expected_duration * 1.02
ShouldRaise_wide(out, raw, sp) ==
    ~ShouldTrim(out, raw, sp) /\ out * sp >= raw * 1030

ShouldRaise(out, raw, sp) ==
    ~ShouldTrim(out, raw, sp) /\ OverEnvelope(out, raw, sp)

\* audio[:n] of an audio of len ms
TrimTo(len, n) == IF n < len THEN n ELSE len

\* what one successful run of ffmpeg can leave at output_file
FfmpegOutputs(raw, sp) ==
    {out \in {TrimLength(raw, sp) + d : d \in FfmpegDrift} : out > 0}

AdjustInit ==
    /\ input_duration \in RawDurations
    /\ atempo_factor \in AtempoFactors
    /\ attempt = 0
    /\ output_duration = 0
    /\ output_file = -1
    /\ adj_pc = "call"

\* shutil.copy2(input_file, output_file); return
AdjustCopy ==
    /\ adj_pc = "call"
    /\ NearUnity(atempo_factor)
    /\ output_file' = input_duration
    /\ adj_pc' = "copied"
    /\ UNCHANGED <<input_duration, atempo_factor, attempt, output_duration>>

\* ffmpeg ran; the output is over the envelope, short and close: trim it
AdjustTrim ==
    /\ adj_pc = "call"
    /\ ~NearUnity(atempo_factor)
    /\ \E out \in FfmpegOutputs(input_duration, atempo_factor) :
        /\ ShouldTrim(out, input_duration, atempo_factor)
        /\ output_duration' = out
        /\ output_file' = TrimTo(out, TrimLength(input_duration, atempo_factor))
    /\ adj_pc' = "trimmed"
    /\ UNCHANGED <<input_duration, atempo_factor, attempt>>

\* ffmpeg ran; the output is over the envelope and not trimmable: raise
AdjustDrift ==
    /\ adj_pc = "call"
    /\ ~NearUnity(atempo_factor)
    /\ \E out \in FfmpegOutputs(input_duration, atempo_factor) :
        /\ ShouldRaise(out, input_duration, atempo_factor)
        /\ output_duration' = out
        /\ output_file' = out
    /\ adj_pc' = "drift"
    /\ UNCHANGED <<input_duration, atempo_factor, attempt>>

\* ffmpeg ran; neither branch applies: return
AdjustAccept ==
    /\ adj_pc = "call"
    /\ ~NearUnity(atempo_factor)
    /\ \E out \in FfmpegOutputs(input_duration, atempo_factor) :
        /\ ~ShouldTrim(out, input_duration, atempo_factor)
        /\ ~ShouldRaise(out, input_duration, atempo_factor)
        /\ output_duration' = out
        /\ output_file' = out
    /\ adj_pc' = "accepted"
    /\ UNCHANGED <<input_duration, atempo_factor, attempt>>

\* subprocess.CalledProcessError with attempts left: sleep and retry
AdjustRetry ==
    /\ adj_pc = "call"
    /\ ~NearUnity(atempo_factor)
    /\ attempt < adjust_max_retries - 1
    /\ attempt' = attempt + 1
    /\ UNCHANGED <<input_duration, atempo_factor, output_duration,
                   output_file, adj_pc>>

\* subprocess.CalledProcessError on the last attempt: raise e
AdjustFail ==
    /\ adj_pc = "call"
    /\ ~NearUnity(atempo_factor)
    /\ attempt = adjust_max_retries - 1
    /\ adj_pc' = "failed"
    /\ UNCHANGED <<input_duration, atempo_factor, attempt, output_duration,
                   output_file>>

----------------------------------------------------------------------------
(* _10_gen_audio.py: merge_chunks *)

MaxRows == 2
overflow_limit == 600

(* Input values: durations and gaps of the lines in 0.1 s, the raw clips   *)
(* of a line in ms, deviations of ffmpeg's output in ms                    *)
RenderDurations == {20, 500}
RenderGaps      == {0, 8}
ClipLists       == {<<1000>>, <<60000>>, <<2000, 100>>}
ClipDrift       == {0, 300, 800}

\* a row of the task table as merge_chunks reads it; real_dur is what
\* process_row summed over the row's clips
RenderRow(s, du, g, clips, cut) ==
    [start |-> s, end |-> s + du, gap |-> g, tolerance |-> Tolerance(g),
     tol_dur |-> TolDur(du, Tolerance(g)), real_dur |-> SumSeq(clips) \div 100,
     cut_off |-> cut, lines |-> clips]

\* the task tables of n rows; the last row always closes a chunk
RECURSIVE RenderTables(_)
RenderTables(n) ==
    IF n = 0 THEN {<<>>}
    ELSE {Append(t, RenderRow(IF t = <<>> THEN 0 ELSE t[Len(t)].end + t[Len(t)].gap,
                              du, g, clips, cut)) :
            t \in RenderTables(n - 1),
            du \in RenderDurations, g \in RenderGaps, clips \in ClipLists,
            cut \in {0, 1}}

\* a time w + n/d in milliseconds, with 0 <= n < d
Frac(w, n, d) == [w |-> w, n |-> n, d |-> d]
\* t + m for a whole number m of milliseconds
FracAdd(t, m) == Frac(t.w + m, t.n, t.d)

\* the durations adjust_audio_speed can leave at output_file when it returns
AdjustResults(raw, sp) ==
    IF NearUnity(sp) THEN {raw}
    ELSE {IF ShouldTrim(out, raw, sp) THEN TrimTo(out, TrimLength(raw, sp)) ELSE out :
            out \in {o \in {TrimLength(raw, sp) + d : d \in ClipDrift} :
                       o > 0 /\ ~ShouldRaise(o, raw, sp)}}

\* ffmpeg can fail on any file, and it rejects a factor that is no positive number
ValidSpeed(sp) == sp.kind = "num" /\ sp.milli > 0
AdjustResultsOf(raw, sp) == IF ValidSpeed(sp) THEN AdjustResults(raw, sp.milli) ELSE {}
AdjustCanRaise(raw, sp) == ~ValidSpeed(sp) \/ ~NearUnity(sp.milli)

\* the lists of adjusted durations the clips of one row can get
RowResults(clips, sp) ==
    {a \in [1..Len(clips) -> UNION {AdjustResultsOf(clips[j], sp) : j \in 1..Len(clips)}] :
        \A j \in 1..Len(clips) : a[j] \in AdjustResultsOf(clips[j], sp)}

\* new_sub_times.append([cur_time, cur_time + ad_dur]); cur_time += ad_dur
RECURSIVE RowTimes(_, _)
RowTimes(cur, ads) ==
    IF ads = <<>> THEN <<>>
    ELSE <<[s |-> cur, e |-> FracAdd(cur, ads[1])]>>
         \o RowTimes(FracAdd(cur, ads[1]), Tail(ads))

\* cur_time += chunk_df.iloc[i - 1]['gap'] / speed_factor, for a pointer whose
\* denominator is the speed factor in 0.001 and a gap in 0.1 s
AfterGap_unscaled(cur, c, i, keep) ==
    IF i # 1 /\ keep THEN Frac(cur.w + c[i - 1].gap * 100, cur.n, cur.d)
    ELSE cur

AfterGap(cur, c, i, keep) ==
    IF i # 1 /\ keep
    THEN LET x == cur.n + c[i - 1].gap * 100 * 1000
         IN Frac(cur.w + x \div cur.d, x % cur.d, cur.d)
    ELSE cur

\* int(k - n/d) with 0 <= n < d: the fraction is cut off towards zero
TruncLess(k, n) == IF n > 0 /\ k >= 1 THEN k - 1 ELSE k

\* audio[:k] of an audio of len ms; a negative k counts from the end
SliceTo(len, k) ==
    IF k >= 0 THEN (IF k < len THEN k ELSE len)
    ELSE IF len + k >= 0 THEN len + k
    ELSE IF len + (len + k) >= 0 THEN len + (len + k) ELSE 0

RenderInit ==
    /\ \E n \in 1..MaxRows :
         tasks_df \in {t \in RenderTables(n) : t[n].cut_off = 1}
    /\ index = 1
    /\ chunk_start_index = 1
    /\ row_i = 0
    /\ chunk_start_time = 0
    /\ chunk_end_time = 0
    /\ cur_time = Frac(0, 0, 1)
    /\ new_sub_times = [r \in 1..Len(tasks_df) |-> <<>>]
    /\ seg_files = [r \in 1..Len(tasks_df) |-> [j \in 1..Len(tasks_df[r].lines) |-> -1]]
    /\ rpc = "scan"
    /\ chunk_df = <<>> /\ speed_factor = NoSpeed /\ keep_gaps = TRUE /\ regime = 0

\* the row does not close a chunk
RenderSkip ==
    /\ rpc = "scan" /\ index <= Len(tasks_df)
    /\ tasks_df[index].cut_off # 1
    /\ index' = index + 1
    /\ UNCHANGED <<tasks_df, chunk_start_index, row_i, chunk_start_time,
                   chunk_end_time, cur_time, new_sub_times, seg_files, rpc,
                   chunk_df, speed_factor, keep_gaps, regime>>

\* the row closes a chunk: process_chunk, the chunk's times, the time pointer
ChunkBegin ==
    /\ rpc = "scan" /\ index <= Len(tasks_df)
    /\ tasks_df[index].cut_off = 1
    /\ LET c == SubSeq(tasks_df, chunk_start_index, index)
           r == process_chunk(c, accept_speed, min_speed)
           d == IF ValidSpeed(r.speed) THEN r.speed.milli ELSE 1
       IN /\ chunk_df' = c
          /\ speed_factor' = r.speed
          /\ keep_gaps' = r.keep_gaps
          /\ regime' = r.regime
          /\ chunk_start_time' = c[1].start * 100
          /\ chunk_end_time' = (c[Len(c)].end + c[Len(c)].tolerance) * 100
          /\ cur_time' = Frac(c[1].start * 100, 0, d)
    /\ row_i' = 1
    /\ rpc' = "rows"
    /\ UNCHANGED <<tasks_df, index, chunk_start_index, new_sub_times, seg_files>>

\* one row of the chunk: the gap, every clip adjusted, the row's new times
RenderRowClips ==
    /\ rpc = "rows"
    /\ LET row == chunk_df[row_i]
           g   == chunk_start_index + row_i - 1
           cur == AfterGap(cur_time, chunk_df, row_i, keep_gaps)
       IN \E ads \in RowResults(row.lines, speed_factor) :
            /\ seg_files' = [seg_files EXCEPT ![g] = ads]
            /\ new_sub_times' = [new_sub_times EXCEPT ![g] = RowTimes(cur, ads)]
            /\ cur_time' = FracAdd(cur, SumSeq(ads))
    /\ IF row_i < Len(chunk_df)
       THEN row_i' = row_i + 1 /\ rpc' = "rows"
       ELSE row_i' = row_i /\ rpc' = "rendered"
    /\ UNCHANGED <<tasks_df, index, chunk_start_index, chunk_start_time,
                   chunk_end_time, chunk_df, speed_factor, keep_gaps, regime>>

\* adjust_audio_speed raises on clip k of the row; the clips before it are done
RenderRowRaise ==
    /\ rpc = "rows"
    /\ LET row == chunk_df[row_i]
           g   == chunk_start_index + row_i - 1
           cur == IF ValidSpeed(speed_factor)
                  THEN AfterGap(cur_time, chunk_df, row_i, keep_gaps)
                  ELSE cur_time
       IN \E k \in 1..Len(row.lines) :
            /\ AdjustCanRaise(row.lines[k], speed_factor)
            /\ \E ads \in RowResults(SubSeq(row.lines, 1, k - 1), speed_factor) :
                 /\ seg_files' = [seg_files EXCEPT ![g] =
                        [j \in 1..Len(row.lines) |-> IF j < k THEN ads[j] ELSE @[j]]]
                 /\ cur_time' = FracAdd(cur, SumSeq(ads))
    /\ rpc' = "error"
    /\ UNCHANGED <<tasks_df, index, chunk_start_index, row_i, chunk_start_time,
                   chunk_end_time, new_sub_times, chunk_df, speed_factor,
                   keep_gaps, regime>>

\* cur_time > chunk_end_time
Overflows ==
    cur_time.w > chunk_end_time \/ (cur_time.w = chunk_end_time /\ cur_time.n > 0)
\* time_diff <= 0.6
WithinLimit ==
    \/ cur_time.w - chunk_end_time < overflow_limit
    \/ cur_time.w - chunk_end_time = overflow_limit /\ cur_time.n = 0

\* the chunk runs over by at most 0.6 s: cut the last file, set its end time
OverflowTrim_unclamped ==
    /\ rpc = "rendered"
    /\ Overflows /\ WithinLimit
    /\ LET k    == Len(tasks_df[index].lines)
           orig == seg_files[index][k]
           new_duration == TruncLess(orig - (cur_time.w - chunk_end_time), cur_time.n)
       IN /\ seg_files' = [seg_files EXCEPT ![index][k] = SliceTo(orig, new_duration)]
          /\ new_sub_times' = new_sub_times
    /\ chunk_start_index' = index + 1
    /\ index' = index + 1
    /\ rpc' = "scan"
    /\ UNCHANGED <<tasks_df, row_i, chunk_start_time, chunk_end_time, cur_time,
                   chunk_df, speed_factor, keep_gaps, regime>>

OverflowTrim ==
    /\ rpc = "rendered"
    /\ Overflows /\ WithinLimit
    /\ LET k    == Len(tasks_df[index].lines)
           orig == seg_files[index][k]
           new_duration == TruncLess(orig - (cur_time.w - chunk_end_time), cur_time.n)
       IN /\ seg_files' = [seg_files EXCEPT ![index][k] = SliceTo(orig, new_duration)]
          /\ new_sub_times' = [new_sub_times EXCEPT ![index][k].e =
                                  Frac(chunk_end_time, 0, cur_time.d)]
    /\ chunk_start_index' = index + 1
    /\ index' = index + 1
    /\ rpc' = "scan"
    /\ UNCHANGED <<tasks_df, row_i, chunk_start_time, chunk_end_time, cur_time,
                   chunk_df, speed_factor, keep_gaps, regime>>

\* the chunk runs over by more than 0.6 s: nothing is corrected
OverflowKeep ==
    /\ rpc = "rendered"
    /\ Overflows /\ ~WithinLimit
    /\ chunk_start_index' = index + 1
    /\ index' = index + 1
    /\ rpc' = "scan"
    /\ UNCHANGED <<tasks_df, row_i, chunk_start_time, chunk_end_time, cur_time,
                   new_sub_times, seg_files, chunk_df, speed_factor, keep_gaps,
                   regime>>

\* the chunk ends in time
NoOverflow ==
    /\ rpc = "rendered"
    /\ ~Overflows
    /\ chunk_start_index' = index + 1
    /\ index' = index + 1
    /\ rpc' = "scan"
    /\ UNCHANGED <<tasks_df, row_i, chunk_start_time, chunk_end_time, cur_time,
                   new_sub_times, seg_files, chunk_df, speed_factor, keep_gaps,
                   regime>>

\* return tasks_df
RenderReturn ==
    /\ rpc = "scan" /\ index > Len(tasks_df)
    /\ rpc' = "done"
    /\ UNCHANGED <<tasks_df, index, chunk_start_index, row_i, chunk_start_time,
                   chunk_end_time, cur_time, new_sub_times, seg_files,
                   chunk_df, speed_factor, keep_gaps, regime>>

----------------------------------------------------------------------------
(* _10_gen_audio.py: generate_tts_audio *)

MaxTasks == 7
MaxWorkers == 2
WARMUP_SIZE == 5

\* what process_row can do for row r: return the summed duration of the
\* row's clips (here 10 + r, in 0.1 s) or raise what tts_main raised
TaskResults(r) == {[ok |-> TRUE, dur |-> 10 + r], [ok |-> FALSE, dur |-> 0]}

\* min(WARMUP_SIZE, len(tasks_df))
warmup_size == Min(WARMUP_SIZE, Len(task_result))

Running == {r \in 1..Len(futures) : futures[r] = "running"}

TtsInit ==
    /\ \E n \in 1..MaxTasks :
         task_result \in {t \in [1..n -> UNION {TaskResults(r) : r \in 1..n}] :
                            \A r \in 1..n : t[r] \in TaskResults(r)}
    /\ real_dur_col = [r \in 1..Len(task_result) |-> 0]
    /\ warm_i = 1
    /\ sub_i = 0
    /\ futures = [r \in 1..Len(task_result) |-> "none"]
    /\ copies = [r \in 1..Len(task_result) |-> <<>>]
    /\ max_workers \in {1, MaxWorkers}
    /\ row_calls = [r \in 1..Len(task_result) |-> <<>>]
    /\ gpc = "warmup"

\* warm-up: process_row returns, the duration is written to the row
WarmupRow ==
    /\ gpc = "warmup" /\ warm_i <= warmup_size
    /\ task_result[warm_i].ok
    /\ row_calls' = [row_calls EXCEPT ![warm_i] = Append(@, "warmup")]
    /\ real_dur_col' = [real_dur_col EXCEPT ![warm_i] = task_result[warm_i].dur]
    /\ warm_i' = warm_i + 1
    /\ UNCHANGED <<task_result, sub_i, futures, copies, max_workers, gpc>>

\* warm-up: process_row raises; the handler prints and re-raises
WarmupRaise ==
    /\ gpc = "warmup" /\ warm_i <= warmup_size
    /\ ~task_result[warm_i].ok
    /\ row_calls' = [row_calls EXCEPT ![warm_i] = Append(@, "warmup")]
    /\ gpc' = "raised"
    /\ UNCHANGED <<task_result, real_dur_col, warm_i, sub_i, futures, copies,
                   max_workers>>

\* the pool is also handed the last row of the warm-up
WarmupDone_overlap ==
    /\ gpc = "warmup" /\ warm_i > warmup_size
    /\ Len(task_result) > warmup_size
    /\ sub_i' = warmup_size
    /\ gpc' = "submit"
    /\ UNCHANGED <<row_calls, task_result, real_dur_col, warm_i, futures, copies, max_workers>>

\* the warm-up is over and rows remain: open the pool
WarmupDone ==
    /\ gpc = "warmup" /\ warm_i > warmup_size
    /\ Len(task_result) > warmup_size
    /\ sub_i' = warmup_size + 1
    /\ gpc' = "submit"
    /\ UNCHANGED <<row_calls, task_result, real_dur_col, warm_i, futures, copies, max_workers>>

\* executor.submit(process_row, row, tasks_df.copy()) for the next row
Submit ==
    /\ gpc = "submit" /\ sub_i <= Len(task_result)
    /\ futures' = [futures EXCEPT ![sub_i] = "queued"]
    /\ copies' = [copies EXCEPT ![sub_i] = real_dur_col]
    /\ sub_i' = sub_i + 1
    /\ UNCHANGED <<row_calls, task_result, real_dur_col, warm_i, max_workers, gpc>>

\* every row is submitted: the loop over as_completed begins
SubmitDone ==
    /\ gpc = "submit" /\ sub_i > Len(task_result)
    /\ gpc' = "collect"
    /\ UNCHANGED <<row_calls, task_result, real_dur_col, warm_i, sub_i, futures, copies,
                   max_workers>>

\* a free worker thread takes a queued task
WorkerStart ==
    /\ gpc \in {"submit", "collect"}
    /\ Cardinality(Running) < max_workers
    /\ \E r \in 1..Len(futures) :
         /\ futures[r] = "queued"
         /\ futures' = [futures EXCEPT ![r] = "running"]
         /\ row_calls' = [row_calls EXCEPT ![r] = Append(@, "pool")]
    /\ UNCHANGED <<task_result, real_dur_col, warm_i, sub_i, copies, max_workers, gpc>>

\* a worker thread finishes process_row, with a result or an exception
WorkerFinish ==
    /\ gpc \in {"submit", "collect"}
    /\ \E r \in Running : futures' = [futures EXCEPT ![r] = "done"]
    /\ UNCHANGED <<row_calls, task_result, real_dur_col, warm_i, sub_i, copies, max_workers, gpc>>

\* as_completed yields a finished future whose result() returns
CollectResult_byorder ==
    /\ gpc = "collect"
    /\ \E r \in 1..Len(futures) :
         /\ futures[r] = "done" /\ task_result[r].ok
         /\ LET k == warmup_size + 1
                       + Cardinality({q \in 1..Len(futures) : futures[q] = "collected"})
            IN real_dur_col' = [real_dur_col EXCEPT ![k] = task_result[r].dur]
         /\ futures' = [futures EXCEPT ![r] = "collected"]
    /\ UNCHANGED <<row_calls, task_result, warm_i, sub_i, copies, max_workers, gpc>>

CollectResult ==
    /\ gpc = "collect"
    /\ \E r \in 1..Len(futures) :
         /\ futures[r] = "done" /\ task_result[r].ok
         /\ real_dur_col' = [real_dur_col EXCEPT ![r] = task_result[r].dur]
         /\ futures' = [futures EXCEPT ![r] = "collected"]
    /\ UNCHANGED <<row_calls, task_result, warm_i, sub_i, copies, max_workers, gpc>>

\* as_completed yields a finished future whose result() raises
CollectFailure ==
    /\ gpc = "collect"
    /\ \E r \in 1..Len(futures) :
         /\ futures[r] = "done" /\ ~task_result[r].ok
         /\ real_dur_col' = [real_dur_col EXCEPT ![r] = -1]
         /\ futures' = [futures EXCEPT ![r] = "collected"]
    /\ UNCHANGED <<row_calls, task_result, warm_i, sub_i, copies, max_workers, gpc>>

\* return tasks_df
TtsReturn ==
    /\ \/ gpc = "warmup" /\ warm_i > warmup_size /\ Len(task_result) <= warmup_size
       \/ gpc = "collect" /\ \A r \in warmup_size + 1..Len(futures) : futures[r] = "collected"
    /\ gpc' = "returned"
    /\ UNCHANGED <<row_calls, task_result, real_dur_col, warm_i, sub_i, futures, copies,
                   max_workers>>

----------------------------------------------------------------------------
(* utils/decorator.py: check_file_exists, wrapped around gen_audio_main *)

MaxCalls == 4

\* if os.path.exists(file_path): ... return
Skips_never(exists) == FALSE

Skips(exists) == exists

GateInit ==
    /\ path_exists \in BOOLEAN
    /\ wrapper_calls = 0
    /\ body_runs = 0
    /\ stage_work = 0
    /\ wpc = "ready"

\* wrapper: the file exists, print and return
WrapperSkip ==
    /\ wpc = "ready" /\ wrapper_calls < MaxCalls
    /\ Skips(path_exists)
    /\ wrapper_calls' = wrapper_calls + 1
    /\ UNCHANGED <<path_exists, body_runs, stage_work, wpc>>

\* wrapper: return func(*args, **kwargs); the body loads the task table
WrapperRun ==
    /\ wpc = "ready" /\ wrapper_calls < MaxCalls
    /\ ~Skips(path_exists)
    /\ wrapper_calls' = wrapper_calls + 1
    /\ body_runs' = body_runs + 1
    /\ wpc' = "tts"
    /\ UNCHANGED <<path_exists, stage_work>>

\* gen_audio_main: generate_tts_audio writes the temporary clips
StageTts ==
    /\ wpc = "tts"
    /\ stage_work' = stage_work + 1
    /\ wpc' = "merge"
    /\ UNCHANGED <<path_exists, wrapper_calls, body_runs>>

\* gen_audio_main: merge_chunks writes the adjusted clips
StageMerge ==
    /\ wpc = "merge"
    /\ stage_work' = stage_work + 1
    /\ wpc' = "save"
    /\ UNCHANGED <<path_exists, wrapper_calls, body_runs>>

\* gen_audio_main: tasks_df.to_excel(_10_GEN_AUDIO)
StageSave ==
    /\ wpc = "save"
    /\ path_exists' = TRUE
    /\ wpc' = "ready"
    /\ UNCHANGED <<wrapper_calls, body_runs, stage_work>>

\* generate_tts_audio or merge_chunks raises: the stage ends without its file
StageRaise ==
    /\ wpc \in {"tts", "merge"}
    /\ stage_work' = stage_work + 1
    /\ wpc' = "ready"
    /\ UNCHANGED <<path_exists, wrapper_calls, body_runs>>

\* between two calls the user removes the output file
RemoveOutput ==
    /\ wpc = "ready" /\ path_exists
    /\ path_exists' = FALSE
    /\ UNCHANGED <<wrapper_calls, body_runs, stage_work, wpc>>

----------------------------------------------------------------------------
(* tts_backend/tts_main.py: tts_main *)

tts_max_retries == 3
silence_ms == 100
min_valid_ms == 50

(* Input values: what the backend can leave at save_as, in ms *)
UsableDurations   == {800, 1500}
UnusableDurations == {0, 50}
\* a file left by an earlier run
ExistingFiles     == {-1, 800}

SynthInit ==
    /\ tts_text \in {"empty", "single", "normal"}
    /\ save_as \in ExistingFiles
    /\ tts_attempt = 0
    /\ failures = <<>>
    /\ text_corrected = FALSE
    /\ backend_calls = 0
    /\ gpt_requests = <<>>
    /\ tpc = "call"

\* the cleaned text is empty or one character: write 100 ms of silence
SilenceForShortText ==
    /\ tpc = "call"
    /\ tts_text \in {"empty", "single"}
    /\ save_as' = silence_ms
    /\ tpc' = "returned"
    /\ UNCHANGED <<tts_text, tts_attempt, failures, text_corrected,
                   backend_calls, gpt_requests>>

\* the file is there already: skip
SkipExisting ==
    /\ tpc = "call"
    /\ tts_text = "normal"
    /\ save_as # -1
    /\ tpc' = "returned"
    /\ UNCHANGED <<tts_text, save_as, tts_attempt, failures, text_corrected,
                   backend_calls, gpt_requests>>

\* enter the retry loop
BeginRetries ==
    /\ tpc = "call"
    /\ tts_text = "normal"
    /\ save_as = -1
    /\ tpc' = "loop"
    /\ UNCHANGED <<tts_text, save_as, tts_attempt, failures, text_corrected,
                   backend_calls, gpt_requests>>

\* ask_gpt is called at the start of every attempt after the first
AsksGpt_every_retry(a) == a >= 1

\* if attempt == max_retries - 1: ask_gpt is called at the start of the attempt
AsksGpt(a) == a = tts_max_retries - 1

\* the requests made so far, with the one of this attempt
Requests == IF AsksGpt(tts_attempt) THEN Append(gpt_requests, tts_attempt)
            ELSE gpt_requests

\* before the last attempt ask_gpt is called; it may give a corrected text
Corrected(c) == IF AsksGpt(tts_attempt) THEN c ELSE text_corrected

\* the backend writes a file longer than 50 ms: break
AttemptSucceeds ==
    /\ tpc = "loop"
    /\ \E d \in UsableDurations, c \in BOOLEAN :
         /\ d > min_valid_ms
         /\ save_as' = d
         /\ text_corrected' = Corrected(c)
    /\ gpt_requests' = Requests
    /\ backend_calls' = backend_calls + 1
    /\ tpc' = "returned"
    /\ UNCHANGED <<tts_text, tts_attempt, failures>>

\* the backend writes a file of at most 50 ms, attempts are left: remove it
AttemptEmpty ==
    /\ tpc = "loop"
    /\ tts_attempt < tts_max_retries - 1
    /\ \E d \in UnusableDurations : d <= min_valid_ms
    /\ save_as' = -1
    /\ failures' = Append(failures, "empty")
    /\ gpt_requests' = Requests
    /\ backend_calls' = backend_calls + 1
    /\ tts_attempt' = tts_attempt + 1
    /\ UNCHANGED <<tts_text, text_corrected, tpc>>

\* the same on the last attempt: write 100 ms of silence and return
AttemptEmptyLast ==
    /\ tpc = "loop"
    /\ tts_attempt = tts_max_retries - 1
    /\ \E d \in UnusableDurations : d <= min_valid_ms
    /\ \E c \in BOOLEAN : text_corrected' = Corrected(c)
    /\ save_as' = silence_ms
    /\ failures' = Append(failures, "empty")
    /\ gpt_requests' = Requests
    /\ backend_calls' = backend_calls + 1
    /\ tpc' = "returned"
    /\ UNCHANGED <<tts_text, tts_attempt>>

\* what can raise inside the try: the backend, the missing file, and
\* ask_gpt when it is called
Raisers == {"backend", "nofile"}
           \cup (IF AsksGpt(tts_attempt) THEN {"gpt"} ELSE {})

\* the backend is not reached when ask_gpt raises
BackendCallsAfter(k) == IF k = "gpt" THEN backend_calls ELSE backend_calls + 1

\* an exception with attempts left: retry
AttemptRaises ==
    /\ tpc = "loop"
    /\ tts_attempt < tts_max_retries - 1
    /\ \E k \in Raisers :
         /\ failures' = Append(failures, k)
         /\ backend_calls' = BackendCallsAfter(k)
    /\ gpt_requests' = Requests
    /\ tts_attempt' = tts_attempt + 1
    /\ UNCHANGED <<tts_text, save_as, text_corrected, tpc>>

\* an exception on the last attempt: raise Exception
AttemptRaisesLast ==
    /\ tpc = "loop"
    /\ tts_attempt = tts_max_retries - 1
    /\ \E k \in Raisers :
         /\ failures' = Append(failures, k)
         /\ backend_calls' = BackendCallsAfter(k)
         /\ text_corrected' \in (IF k = "gpt" THEN {FALSE} ELSE BOOLEAN)
    /\ gpt_requests' = Requests
    /\ tpc' = "raised"
    /\ UNCHANGED <<tts_text, save_as, tts_attempt>>

----------------------------------------------------------------------------
(* Specifications *)

PlanIdle  == df = <<>> /\ whole_dur = 0 /\ idx = 0 /\ ppc = "idle"
             /\ group = [first |-> 0, count |-> 0] /\ final_df = <<>>
SolveIdle == chunk_df = <<>> /\ speed_factor = NoSpeed /\ keep_gaps = TRUE /\ regime = 0
AlignIdle == /\ df_words = <<>> /\ df_sentences = <<>> /\ full_words_str = <<>>
             /\ position_to_word_idx = <<>> /\ current_pos = 0 /\ sent_i = 1
             /\ time_stamp_list = <<>> /\ match_pos = <<>> /\ timestamp = <<>>
             /\ post_i = 1 /\ files_written = FALSE /\ apc = "idle"
AdjustIdle == /\ input_duration = 0 /\ atempo_factor = 0 /\ attempt = 0
              /\ output_duration = 0 /\ output_file = -1 /\ adj_pc = "idle"
EarlyIdle == PlanIdle /\ SolveIdle /\ AlignIdle
RenderIdle == /\ tasks_df = <<>> /\ index = 0 /\ chunk_start_index = 0 /\ row_i = 0
              /\ chunk_start_time = 0 /\ chunk_end_time = 0
              /\ cur_time = [w |-> 0, n |-> 0, d |-> 1] /\ new_sub_times = <<>>
              /\ seg_files = <<>> /\ rpc = "idle"
TtsIdle == /\ task_result = <<>> /\ real_dur_col = <<>> /\ warm_i = 0 /\ sub_i = 0
           /\ futures = <<>> /\ copies = <<>> /\ max_workers = 0
           /\ row_calls = <<>> /\ gpc = "idle"
GateIdle == /\ path_exists = FALSE /\ wrapper_calls = 0 /\ body_runs = 0
            /\ stage_work = 0 /\ wpc = "idle"
SynthIdle == /\ tts_text = "none" /\ save_as = -1 /\ tts_attempt = 0
             /\ failures = <<>> /\ text_corrected = FALSE
             /\ backend_calls = 0 /\ gpt_requests = <<>> /\ tpc = "idle"
LaterIdle == AdjustIdle /\ RenderIdle /\ TtsIdle /\ GateIdle /\ SynthIdle

\* TimingAnalyzer and ChunkPlanner
PlanNext ==
    \/ Analyze /\ UNCHANGED <<solveVars, alignVars, laterVars>>
    \/ InitCutoffs /\ UNCHANGED <<solveVars, alignVars, laterVars>>
    \/ ScanSkip /\ UNCHANGED <<solveVars, alignVars, laterVars>>
    \/ ScanLast /\ UNCHANGED <<solveVars, alignVars, laterVars>>
    \/ ScanSingle /\ UNCHANGED <<solveVars, alignVars, laterVars>>
    \/ ScanMerge /\ UNCHANGED <<solveVars, alignVars, laterVars>>
    \/ ScanExit /\ UNCHANGED <<solveVars, alignVars, laterVars>>
    \/ Persist /\ UNCHANGED <<solveVars, alignVars, laterVars>>

InitPlan == PlanInit /\ SolveIdle /\ AlignIdle /\ LaterIdle

SpecPlan == InitPlan /\ [][PlanNext]_vars

\* The same stage over the longer tables; the loop of process_cutoffs runs
\* on one thread until it ends, so the stage is not starved.
InitScan == ScanInit /\ SolveIdle /\ AlignIdle /\ LaterIdle

SpecScan == InitScan /\ [][PlanNext]_vars

SpecScanLive == InitScan /\ [][PlanNext]_vars /\ WF_vars(PlanNext)

\* SpeedSolver
SolveNext == Solve /\ UNCHANGED <<planVars, alignVars, laterVars>>

InitSolve == SolveInit /\ PlanIdle /\ AlignIdle /\ LaterIdle

SpecSolve == InitSolve /\ [][SolveNext]_vars

\* TimestampAligner
AlignNext ==
    \/ BuildIndex /\ UNCHANGED <<planVars, solveVars, laterVars>>
    \/ AlignEmpty /\ UNCHANGED <<planVars, solveVars, laterVars>>
    \/ AlignMatch /\ UNCHANGED <<planVars, solveVars, laterVars>>
    \/ AlignFail /\ UNCHANGED <<planVars, solveVars, laterVars>>
    \/ AlignReturn /\ UNCHANGED <<planVars, solveVars, laterVars>>
    \/ PostPass /\ UNCHANGED <<planVars, solveVars, laterVars>>
    \/ WriteFiles /\ UNCHANGED <<planVars, solveVars, laterVars>>

InitAlign == AlignInit /\ PlanIdle /\ SolveIdle /\ LaterIdle

SpecAlign == InitAlign /\ [][AlignNext]_vars

\* adjust_audio_speed
AdjustNext ==
    \/ AdjustCopy /\ UNCHANGED <<earlyVars, renderVars, ttsVars, gateVars, synthVars>>
    \/ AdjustTrim /\ UNCHANGED <<earlyVars, renderVars, ttsVars, gateVars, synthVars>>
    \/ AdjustDrift /\ UNCHANGED <<earlyVars, renderVars, ttsVars, gateVars, synthVars>>
    \/ AdjustAccept /\ UNCHANGED <<earlyVars, renderVars, ttsVars, gateVars, synthVars>>
    \/ AdjustRetry /\ UNCHANGED <<earlyVars, renderVars, ttsVars, gateVars, synthVars>>
    \/ AdjustFail /\ UNCHANGED <<earlyVars, renderVars, ttsVars, gateVars, synthVars>>

InitAdjust == AdjustInit /\ EarlyIdle /\ RenderIdle /\ TtsIdle /\ GateIdle /\ SynthIdle

SpecAdjust == InitAdjust /\ [][AdjustNext]_vars

\* merge_chunks
RenderNext ==
    \/ RenderSkip /\ UNCHANGED <<planVars, alignVars, adjustVars, ttsVars, gateVars, synthVars>>
    \/ ChunkBegin /\ UNCHANGED <<planVars, alignVars, adjustVars, ttsVars, gateVars, synthVars>>
    \/ RenderRowClips /\ UNCHANGED <<planVars, alignVars, adjustVars, ttsVars, gateVars, synthVars>>
    \/ RenderRowRaise /\ UNCHANGED <<planVars, alignVars, adjustVars, ttsVars, gateVars, synthVars>>
    \/ OverflowTrim /\ UNCHANGED <<planVars, alignVars, adjustVars, ttsVars, gateVars, synthVars>>
    \/ OverflowKeep /\ UNCHANGED <<planVars, alignVars, adjustVars, ttsVars, gateVars, synthVars>>
    \/ NoOverflow /\ UNCHANGED <<planVars, alignVars, adjustVars, ttsVars, gateVars, synthVars>>
    \/ RenderReturn /\ UNCHANGED <<planVars, alignVars, adjustVars, ttsVars, gateVars, synthVars>>

InitRender == RenderInit /\ PlanIdle /\ AlignIdle /\ AdjustIdle /\ TtsIdle /\ GateIdle /\ SynthIdle

SpecRender == InitRender /\ [][RenderNext]_vars

\* generate_tts_audio
TtsNext ==
    \/ WarmupRow /\ UNCHANGED <<earlyVars, adjustVars, renderVars, gateVars, synthVars>>
    \/ WarmupRaise /\ UNCHANGED <<earlyVars, adjustVars, renderVars, gateVars, synthVars>>
    \/ WarmupDone /\ UNCHANGED <<earlyVars, adjustVars, renderVars, gateVars, synthVars>>
    \/ Submit /\ UNCHANGED <<earlyVars, adjustVars, renderVars, gateVars, synthVars>>
    \/ SubmitDone /\ UNCHANGED <<earlyVars, adjustVars, renderVars, gateVars, synthVars>>
    \/ WorkerStart /\ UNCHANGED <<earlyVars, adjustVars, renderVars, gateVars, synthVars>>
    \/ WorkerFinish /\ UNCHANGED <<earlyVars, adjustVars, renderVars, gateVars, synthVars>>
    \/ CollectResult /\ UNCHANGED <<earlyVars, adjustVars, renderVars, gateVars, synthVars>>
    \/ CollectFailure /\ UNCHANGED <<earlyVars, adjustVars, renderVars, gateVars, synthVars>>
    \/ TtsReturn /\ UNCHANGED <<earlyVars, adjustVars, renderVars, gateVars, synthVars>>

InitTts == TtsInit /\ EarlyIdle /\ AdjustIdle /\ RenderIdle /\ GateIdle /\ SynthIdle

SpecTts == InitTts /\ [][TtsNext]_vars

\* check_file_exists(_10_GEN_AUDIO)(gen_audio_main)
GateNext ==
    \/ WrapperSkip /\ UNCHANGED <<earlyVars, adjustVars, renderVars, ttsVars, synthVars>>
    \/ WrapperRun /\ UNCHANGED <<earlyVars, adjustVars, renderVars, ttsVars, synthVars>>
    \/ StageTts /\ UNCHANGED <<earlyVars, adjustVars, renderVars, ttsVars, synthVars>>
    \/ StageMerge /\ UNCHANGED <<earlyVars, adjustVars, renderVars, ttsVars, synthVars>>
    \/ StageSave /\ UNCHANGED <<earlyVars, adjustVars, renderVars, ttsVars, synthVars>>
    \/ StageRaise /\ UNCHANGED <<earlyVars, adjustVars, renderVars, ttsVars, synthVars>>
    \/ RemoveOutput /\ UNCHANGED <<earlyVars, adjustVars, renderVars, ttsVars, synthVars>>

InitGate == GateInit /\ EarlyIdle /\ AdjustIdle /\ RenderIdle /\ TtsIdle /\ SynthIdle

SpecGate == InitGate /\ [][GateNext]_vars

\* tts_main
SynthNext ==
    \/ SilenceForShortText /\ UNCHANGED <<earlyVars, adjustVars, renderVars, ttsVars, gateVars>>
    \/ SkipExisting /\ UNCHANGED <<earlyVars, adjustVars, renderVars, ttsVars, gateVars>>
    \/ BeginRetries /\ UNCHANGED <<earlyVars, adjustVars, renderVars, ttsVars, gateVars>>
    \/ AttemptSucceeds /\ UNCHANGED <<earlyVars, adjustVars, renderVars, ttsVars, gateVars>>
    \/ AttemptEmpty /\ UNCHANGED <<earlyVars, adjustVars, renderVars, ttsVars, gateVars>>
    \/ AttemptEmptyLast /\ UNCHANGED <<earlyVars, adjustVars, renderVars, ttsVars, gateVars>>
    \/ AttemptRaises /\ UNCHANGED <<earlyVars, adjustVars, renderVars, ttsVars, gateVars>>
    \/ AttemptRaisesLast /\ UNCHANGED <<earlyVars, adjustVars, renderVars, ttsVars, gateVars>>

InitSynth == SynthInit /\ EarlyIdle /\ AdjustIdle /\ RenderIdle /\ TtsIdle /\ GateIdle

SpecSynth == InitSynth /\ [][SynthNext]_vars

----------------------------------------------------------------------------
(* Properties of process_chunk, checked under SpecSolve *)

Abs(x) == IF x < 0 THEN -x ELSE x

\* the four sums of the chunk at hand
ChunkDurs == SumSeq(RealDurCol(chunk_df))
TolDurs   == SumSeq(TolDurCol(chunk_df))
DurationsSum == TolDurs - chunk_df[Len(chunk_df)].tolerance
AllGaps   == SumSeq(GapCol(chunk_df)) - chunk_df[Len(chunk_df)].gap

\* s is num/den to three decimals (inf, -inf or nan when den = 0)
IsQuotient(s, num, den) ==
    IF den = 0
    THEN s.kind = (IF num > 0 THEN "inf" ELSE IF num < 0 THEN "-inf" ELSE "nan")
    ELSE s.kind = "num" /\ 2 * Abs(s.milli * den - 1000 * num) <= Abs(den)

\* num/den > min_speed
AboveFloor(num, den) ==
    IF den > 0 THEN 1000 * num > min_speed * den
    ELSE IF den < 0 THEN 1000 * num < min_speed * den
    ELSE num > 0

\* s is max(min_speed, num/den) to three decimals
IsFlooredQuotient(s, num, den) ==
    IF AboveFloor(num, den) THEN IsQuotient(s, num, den)
    ELSE s = [kind |-> "num", milli |-> min_speed]

Regime1Holds == (ChunkDurs + AllGaps) * 1000 < DurationsSum * accept_speed
Regime2Holds == ChunkDurs * 1000 < DurationsSum * accept_speed
Regime3Holds == (ChunkDurs + AllGaps) * 1000 < TolDurs * accept_speed

\* C1: process_chunk returns the result of the first regime whose condition
\* holds, in the order 1, 2, 3, 4, with the speed and gap policy of that
\* regime; keep_gaps is true exactly in regimes 1 and 3; and the chunk with
\* chunk_durs 5.0, all_gaps 1.0, durations 5.5, tol_durs 6.0 is solved by
\* regime 1 with speed 1.111 and keep_gaps true.
C1_RegimeOrder ==
    regime # 0 =>
        /\ regime = (IF Regime1Holds THEN 1 ELSE IF Regime2Holds THEN 2
                     ELSE IF Regime3Holds THEN 3 ELSE 4)
        /\ keep_gaps = (regime \in {1, 3})
        /\ regime = 1 => IsFlooredQuotient(speed_factor, ChunkDurs + AllGaps,
                                           DurationsSum - speed_var_error)
        /\ regime = 2 => IsFlooredQuotient(speed_factor, ChunkDurs,
                                           DurationsSum - speed_var_error)
        /\ regime = 3 => IsFlooredQuotient(speed_factor, ChunkDurs + AllGaps,
                                           TolDurs - speed_var_error)
        /\ regime = 4 => IsQuotient(speed_factor, ChunkDurs, TolDurs - speed_var_error)
        /\ (ChunkDurs = 50 /\ AllGaps = 10 /\ DurationsSum = 55 /\ TolDurs = 60)
              => (regime = 1 /\ speed_factor = [kind |-> "num", milli |-> 1111] /\ keep_gaps)

\* the worked example has been solved
C1_Witness ==
    /\ regime = 1 /\ keep_gaps
    /\ ChunkDurs = 50 /\ AllGaps = 10 /\ DurationsSum = 55 /\ TolDurs = 60
    /\ speed_factor.milli = 1111

\* C2: in regimes 1, 2 and 3 the returned speed is at least min_speed; in
\* regime 4 it is chunk_durs / (tol_durs - 0.1) with no floor.
C2_FloorExceptRegime4 ==
    /\ regime \in {1, 2, 3} =>
          \/ speed_factor.kind = "num" /\ speed_factor.milli >= min_speed
          \/ speed_factor.kind = "inf"
    /\ regime = 4 => IsQuotient(speed_factor, ChunkDurs, TolDurs - speed_var_error)

\* a chunk solved by regime 4 at a speed below min_speed
C2_Witness ==
    regime = 4 /\ speed_factor.kind = "num" /\ speed_factor.milli < min_speed
               /\ speed_factor.milli > 0

----------------------------------------------------------------------------
(* Properties of the analysis and of process_cutoffs, checked under SpecPlan *)

Lines == 1..Len(df)
GroupLast == group.first + group.count - 1
GroupRows == group.first..GroupLast

\* the chunks the marks define: each run that ends at a cut_off = 1 line and
\* starts after the cut_off = 1 line before it
MarkedChunks ==
    {{i \in Lines : i <= j /\ \A k \in Lines : (k < j /\ df[k].cut_off = 1) => k < i} :
        j \in {j \in Lines : df[j].cut_off = 1}}

\* C3: after process_cutoffs the final line has cut_off = 1 and the runs
\* ending at the cut_off = 1 lines partition the line sequence: every line
\* is in exactly one of them.
C3_FinalLineCut ==
    ppc = "done" =>
        /\ df[Len(df)].cut_off = 1
        /\ \A i \in Lines : Cardinality({c \in MarkedChunks : i \in c}) = 1

\* the scan ended in a merge that ran into the end of the table, whose last
\* line is no natural pause
C3_Witness ==
    /\ ppc = "done" /\ Len(df) = MaxLines
    /\ df[Len(df)].gap < GLOBAL_TOLERANCE
    /\ group.count = 2 /\ GroupLast = Len(df)

\* C4: every group of lines formed by one step of the scan holds exactly
\* one cut_off = 1 line, its last.
C4_GroupHasOneCut ==
    (ppc \in {"scan", "done"} /\ group.count > 0) =>
        {i \in GroupRows : df[i].cut_off = 1} = {GroupLast}

\* C5: once the marks are initialized every line with gap >= GLOBAL_TOLERANCE
\* has cut_off = 1, whatever its flag, and no step of the scan clears a mark.
C5_PauseIsBoundary ==
    /\ [](ppc \in {"scan", "done"} =>
            \A i \in Lines : df[i].gap >= GLOBAL_TOLERANCE => df[i].cut_off = 1)
    /\ [][ppc = "scan" =>
            \A i \in Lines : df[i].cut_off = 1 => df'[i].cut_off = 1]_vars

\* a natural pause on a line flagged 2 that a merge has passed over
C5_Witness ==
    /\ ppc = "done"
    /\ \E i \in Lines :
          /\ df[i].gap >= GLOBAL_TOLERANCE /\ df[i].if_too_fast = 2
          /\ group.first < i /\ i < GroupLast
          /\ df[i].cut_off = 1

C7_FlagPriority ==
    ppc = "analyzed" =>
        \A i \in Lines :
            LET r == df[i]
                unfixable == r.est_dur * 1000 > r.tol_dur * accept_speed
                fast == r.est_dur > r.tol_dur
                slow == r.est_dur < r.duration - r.tolerance
            IN /\ r.if_too_fast \in {2, 1, -1, 0}
               /\ r.if_too_fast = 2 <=> unfixable
               /\ r.if_too_fast = 1 <=> (~unfixable /\ fast)
               /\ r.if_too_fast = -1 <=> (~unfixable /\ ~fast /\ slow)
               /\ r.if_too_fast = 0 <=> (~unfixable /\ ~fast /\ ~slow)
               /\ (r.duration = 20 /\ r.gap = 3 /\ r.est_dur = 21 /\ GLOBAL_TOLERANCE = 5)
                     => (r.tolerance = 3 /\ r.tol_dur = 23 /\ r.if_too_fast = 0)

\* the worked line has been analyzed
C7_Witness ==
    /\ ppc = "analyzed"
    /\ \E i \in Lines : /\ df[i].duration = 20 /\ df[i].gap = 3 /\ df[i].est_dur = 21
                        /\ df[i].if_too_fast = 0

----------------------------------------------------------------------------
(* Properties of the alignment, checked under SpecAlign *)

\* the cleaned text of line k
CleanOf(k) == CleanSentence(df_sentences[k])

\* the text of line k stands at position p of the word stream
OccursAt(k, p) ==
    /\ p + Len(CleanOf(k)) <= Len(full_words_str)
    /\ \A j \in 1..Len(CleanOf(k)) : full_words_str[p + j] = CleanOf(k)[j]

\* the cursor when line k is searched: the end of the last match before it
CursorAt(k) ==
    LET earlier == {j \in 1..(k - 1) : j <= Len(match_pos) /\ match_pos[j] # -1}
    IN IF earlier = {} THEN 0
       ELSE LET j == CHOOSE x \in earlier : \A y \in earlier : y <= x
            IN match_pos[j] + Len(CleanOf(j))

\* C8: every line with non-empty cleaned text is matched at the smallest
\* position at or after the cursor where the word stream holds its text;
\* its interval runs from the start of the word at that position to the end
\* of the word at the match's last position; the cursor then stands right
\* after the match, and no step moves the cursor back.
C8_EarliestMatchFromCursor ==
    /\ [](apc # "idle" =>
            /\ \A k \in 1..Len(match_pos) :
                  IF CleanOf(k) = <<>> THEN match_pos[k] = -1
                  ELSE /\ match_pos[k] >= CursorAt(k)
                       /\ OccursAt(k, match_pos[k])
                       /\ \A q \in CursorAt(k)..(match_pos[k] - 1) : ~OccursAt(k, q)
                       /\ time_stamp_list[k] =
                            <<df_words[position_to_word_idx[match_pos[k] + 1]].start,
                              df_words[position_to_word_idx[match_pos[k] + Len(CleanOf(k))]].end>>
            /\ current_pos = CursorAt(Len(match_pos) + 1))
    /\ [][current_pos' >= current_pos]_vars

\* a line whose text also stands before the cursor was matched after it,
\* past a position that does not match
C8_Witness ==
    /\ apc = "done"
    /\ \E k \in 1..Len(match_pos) :
          /\ match_pos[k] # -1
          /\ CursorAt(k) > 0
          /\ match_pos[k] > CursorAt(k)
          /\ \E q \in 0..(CursorAt(k) - 1) : OccursAt(k, q)

\* C9: a line whose cleaned text does not stand in the word stream at or
\* after the cursor makes get_sentence_timestamps raise; after that nothing
\* is returned, the timestamp column is never set and no file is written.
C9_MismatchIsFatal ==
    /\ [][(/\ apc = "align" /\ sent_i <= Len(df_sentences)
           /\ CleanOf(sent_i) # <<>>
           /\ \A q \in current_pos..Len(full_words_str) : ~OccursAt(sent_i, q))
          => apc' = "error"]_vars
    /\ [][apc = "error" => apc' = "error"]_vars
    /\ [](apc = "error" => (timestamp = <<>> /\ ~files_written))
    /\ [](files_written =>
            \A k \in 1..Len(df_sentences) : CleanOf(k) # <<>> => match_pos[k] # -1)

\* the alignment failed on a line after an earlier line had been matched
C9_Witness ==
    /\ apc = "error"
    /\ \E k \in 1..Len(match_pos) : match_pos[k] # -1
    /\ ~files_written

\* the gap between lines i and i + 1 as get_sentence_timestamps returned them
RawGap(i) == time_stamp_list[i + 1][1] - time_stamp_list[i][2]

\* C10: after the post-pass, each line whose gap to the next line was
\* positive and under one second ends where the next line starts; every
\* start and every other end is as returned; so no two consecutive lines
\* are left with a gap strictly between 0 and 1 second.
C10_SubSecondGapsClosed ==
    apc = "done" =>
        /\ Len(timestamp) = Len(time_stamp_list)
        /\ \A i \in 1..Len(timestamp) :
              /\ timestamp[i][1] = time_stamp_list[i][1]
              /\ timestamp[i][2] =
                    IF i < Len(timestamp) /\ 0 < RawGap(i) /\ RawGap(i) < OneSecond
                    THEN timestamp[i + 1][1]
                    ELSE time_stamp_list[i][2]
        /\ \A i \in 1..(Len(timestamp) - 1) :
              ~(0 < timestamp[i + 1][1] - timestamp[i][2]
                /\ timestamp[i + 1][1] - timestamp[i][2] < OneSecond)

\* a table with a closed sub-second gap next to a pair that overlaps
C10_Witness ==
    /\ apc = "done" /\ Len(timestamp) = MaxSents
    /\ \E i \in 1..(Len(timestamp) - 1) :
          0 < RawGap(i) /\ RawGap(i) < OneSecond /\ timestamp[i][2] = timestamp[i + 1][1]
    /\ \E i \in 1..(Len(timestamp) - 1) : RawGap(i) < 0

----------------------------------------------------------------------------
(* Properties of adjust_audio_speed, checked under SpecAdjust *)

\* a step in which ffmpeg ran and its output was measured
Measured == adj_pc = "call" /\ adj_pc' \in {"trimmed", "drift", "accepted"}

\* the output is at least 2 % longer than input / speed
RelExcessAtLeast2(out, raw, sp) == (out * sp - raw * 1000) * 50 >= raw * 1000

\* the output is at most 0.1 s longer than input / speed
AbsExcessAtMost100ms(out, raw, sp) == out * sp - raw * 1000 <= 100 * sp

\* n is input / speed at millisecond resolution
IsTheoreticalMs(n, raw, sp) == n * sp <= raw * 1000 /\ raw * 1000 < (n + 1) * sp

(* C14: when the output of the speed change is at least 2 % longer than    *)
(* raw duration / speed factor, the absolute excess is at most 0.1 s and   *)
(* the raw clip is shorter than 3 s, the output file is cut to the         *)
(* theoretical duration at millisecond resolution and the call returns     *)
(* normally.                                                               *)
C14_ShortDriftTrimmed ==
    [][ (/\ Measured
         /\ RelExcessAtLeast2(output_duration', input_duration, atempo_factor)
         /\ AbsExcessAtMost100ms(output_duration', input_duration, atempo_factor)
         /\ input_duration < 3000)
        => /\ adj_pc' = "trimmed"
           /\ IsTheoreticalMs(output_file', input_duration, atempo_factor) ]_vars

\* the worked example: 2 s at factor 1.5 measured at 1.36 s is cut to 1.333 s
C14_Witness ==
    /\ adj_pc = "trimmed"
    /\ input_duration = 2000 /\ atempo_factor = 1500
    /\ output_duration = 1360 /\ output_file = 1333

(* C15: adjust_audio_speed raises the drift error exactly when the output  *)
(* is at least 2 % longer than the theoretical duration and it is not the  *)
(* case that the excess is at most 0.1 s with a raw clip under 3 s; an     *)
(* output less than 2 % longer, or shorter, is returned unchanged.         *)
C15_DriftRaisedIffOutsideEnvelope ==
    [][ /\ Measured =>
            /\ adj_pc' = "drift" <=>
                 /\ RelExcessAtLeast2(output_duration', input_duration, atempo_factor)
                 /\ ~(/\ AbsExcessAtMost100ms(output_duration', input_duration,
                                              atempo_factor)
                      /\ input_duration < 3000)
            /\ ~RelExcessAtLeast2(output_duration', input_duration, atempo_factor)
                 => adj_pc' = "accepted" /\ output_file' = output_duration'
        /\ adj_pc' = "drift" /\ adj_pc # "drift" => Measured ]_vars

\* a 3 s clip whose output is 2 % and 40 ms too long: not short, so it raises;
\* and a short clip whose output is 101 ms too long
C15_Witness ==
    /\ adj_pc = "drift"
    /\ \/ input_duration = 3000 /\ atempo_factor = 1500 /\ output_duration = 2040
       \/ input_duration = 2000 /\ atempo_factor = 1500 /\ output_duration = 1434

----------------------------------------------------------------------------
(* Properties of merge_chunks, checked under SpecRender *)

\* a time compared with a whole number m of milliseconds
After(t, m)  == t.w > m \/ (t.w = m /\ t.n > 0)
Before(t, m) == t.w < m
At(t, m)     == t.w = m /\ t.n = 0

\* the step that ends the processing of a chunk
ChunkEnds == rpc = "rendered" /\ rpc' = "scan"
\* the last row of the chunk and its last clip
LastRow  == index
LastClip == Len(tasks_df[index].lines)
\* the overflow cur_time - chunk_end_time is positive and at most 0.6 s
SmallOverflow ==
    /\ After(cur_time, chunk_end_time)
    /\ ~After(cur_time, chunk_end_time + 600)

(* C11: when a chunk has been rendered and the time pointer is past the    *)
(* nominal end of the chunk (end of its last line plus that line's         *)
(* tolerance) by d with 0 < d <= 0.6 s, the last clip of the chunk is      *)
(* shortened by d (to the millisecond) and its recorded end becomes the    *)
(* nominal end, nothing else changing; otherwise no clip and no recorded   *)
(* time changes.                                                           *)
C11_OverflowTrimmed ==
    [][ ChunkEnds =>
          IF SmallOverflow
          THEN LET old == seg_files[LastRow][LastClip]
                   new == seg_files'[LastRow][LastClip]
                   \* old - d lies in (rest - 1, rest]
                   rest == old - (cur_time.w - chunk_end_time)
               IN /\ new >= 0
                  /\ new = (IF cur_time.n = 0 THEN rest ELSE rest - 1)
                  /\ At(new_sub_times'[LastRow][LastClip].e, chunk_end_time)
                  /\ seg_files' = [seg_files EXCEPT ![LastRow][LastClip] = new]
                  /\ new_sub_times' = [new_sub_times EXCEPT ![LastRow][LastClip].e =
                                          new_sub_times'[LastRow][LastClip].e]
          ELSE seg_files' = seg_files /\ new_sub_times' = new_sub_times ]_vars

\* the state after a chunk has been processed; its last row is index - 1
ChunkProcessed == rpc = "scan" /\ index > 1 /\ chunk_start_index = index
RecordedEnd ==
    new_sub_times[index - 1][Len(new_sub_times[index - 1])].e

(* C12: after a chunk has been processed, overflow correction included,    *)
(* the recorded end of its last clip is within 0.6 s of the nominal chunk  *)
(* end.                                                                    *)
C12_EndNearNominal ==
    ChunkProcessed =>
        /\ ~After(RecordedEnd, chunk_end_time + 600)
        /\ ~Before(RecordedEnd, chunk_end_time - 600)

(* C12 as the code has it: after a chunk has been processed the recorded   *)
(* end of its last clip is never past the nominal chunk end by 0.6 s or    *)
(* less: it is at or before the nominal end, or more than 0.6 s past it.   *)
C12_EndNeverJustPast ==
    ChunkProcessed =>
        \/ ~After(RecordedEnd, chunk_end_time)
        \/ After(RecordedEnd, chunk_end_time + 600)

\* a chunk that ran over by at most 0.6 s and was clamped to its nominal end
C12_Witness ==
    /\ ChunkProcessed
    /\ SmallOverflow
    /\ At(RecordedEnd, chunk_end_time)

\* the gaps, in 0.0001 s, the pointer passes before row i of the chunk
RECURSIVE GapsBefore(_)
GapsBefore(i) == IF i <= 1 THEN 0 ELSE chunk_df[i - 1].gap * 1000 + GapsBefore(i - 1)
\* the adjusted durations of the rows 1..i of the chunk
RECURSIVE ClipsUpTo(_)
ClipsUpTo(i) ==
    IF i = 0 THEN 0 ELSE SumSeq(seg_files[chunk_start_index + i - 1]) + ClipsUpTo(i - 1)
\* start + clips + gaps / speed, for gaps in 0.0001 s and the speed in 0.001
Span(clips, gaps) ==
    [w |-> chunk_start_time + clips + (gaps * 100) \div speed_factor.milli,
     n |-> (gaps * 100) % speed_factor.milli,
     d |-> speed_factor.milli]
\* where the pointer stands when clip j of row i of the chunk starts
PointerAt(i, j) ==
    Span(ClipsUpTo(i - 1) + SumSeq(SubSeq(seg_files[chunk_start_index + i - 1], 1, j - 1)),
         IF keep_gaps THEN GapsBefore(i) ELSE 0)

(* C13: when the rows of a chunk have been rendered and before any         *)
(* overflow trim, the time pointer minus the start of the chunk's first    *)
(* line equals the sum of the adjusted clip durations plus, if gaps are    *)
(* kept, the sum over the non-first lines of the preceding line's gap      *)
(* divided by the speed factor; and every clip is recorded as              *)
(* [pointer, pointer + adjusted duration].                                 *)
C13_RenderedSpan ==
    rpc = "rendered" =>
        /\ cur_time = Span(ClipsUpTo(Len(chunk_df)),
                           IF keep_gaps THEN GapsBefore(Len(chunk_df)) ELSE 0)
        /\ \A i \in 1..Len(chunk_df) :
             LET g == chunk_start_index + i - 1
             IN /\ Len(new_sub_times[g]) = Len(seg_files[g])
                /\ \A j \in 1..Len(seg_files[g]) :
                     /\ new_sub_times[g][j].s = PointerAt(i, j)
                     /\ new_sub_times[g][j].e =
                          [PointerAt(i, j) EXCEPT !.w = @ + seg_files[g][j]]

\* a chunk of two rows rendered with its gap kept at a speed above 1
C13_Witness ==
    /\ rpc = "rendered"
    /\ Len(chunk_df) = 2 /\ keep_gaps /\ chunk_df[1].gap > 0
    /\ speed_factor.milli > 1000

----------------------------------------------------------------------------
(* Properties of generate_tts_audio, checked under SpecTts *)

\* what row r must hold when the batch is over
Expected(r) == IF task_result[r].ok THEN task_result[r].dur ELSE -1

(* C16: if the synthesis of a line fails, whichever line it is, the first  *)
(* lines of the table included, generate_tts_audio does not abort: it      *)
(* returns normally, with -1 as real_dur of every failed line and the      *)
(* measured duration for every other line.                                 *)
C16_FailureIsolated ==
    /\ gpc # "raised"
    /\ gpc = "returned" => \A r \in 1..Len(task_result) : real_dur_col[r] = Expected(r)

\* a step of a worker thread
WorkerStep == \E r \in 1..Len(futures) :
    /\ futures[r] \in {"queued", "running"}
    /\ futures'[r] \in {"running", "done"}
    /\ futures'[r] # futures[r]

(* C17: in the parallel phase, whatever the interleaving and the order of  *)
(* completion, a row's real_dur is only ever written by the coordinating   *)
(* thread when it collects that row's own future, with that task's result  *)
(* or -1 if it failed; the worker threads leave the table alone and each   *)
(* works on its own copy; so at the return every row of the parallel phase *)
(* holds its own task's result.                                            *)
C17_ResultsKeyedByRow ==
    [][ /\ gpc \in {"submit", "collect"} =>
            \A r \in 1..Len(task_result) :
                real_dur_col'[r] # real_dur_col[r] =>
                    /\ futures[r] = "done" /\ futures'[r] = "collected"
                    /\ real_dur_col'[r] = Expected(r)
        /\ WorkerStep => real_dur_col' = real_dur_col /\ copies' = copies
        /\ gpc' = "returned" =>
            \A r \in warmup_size + 1..Len(task_result) : real_dur_col'[r] = Expected(r) ]_vars

\* a batch whose pool held at least two tasks, one that failed and one
\* that succeeded, has returned
C17_Witness ==
    /\ gpc = "returned"
    /\ Len(task_result) >= warmup_size + 2
    /\ \E r \in warmup_size + 1..Len(task_result) : real_dur_col[r] = -1
    /\ \E r \in warmup_size + 1..Len(task_result) : real_dur_col[r] > 0

----------------------------------------------------------------------------
(* Frame of process_cutoffs and merge_rows, checked under SpecPlan *)

\* a row with its cut_off left out of the comparison
WithoutCut(row) == [row EXCEPT !.cut_off = 0]

(* C19: process_cutoffs and merge_rows change no field of any line other   *)
(* than cut_off: the number of lines and every line's start, end,          *)
(* duration, est_dur, gap, tolerance, tol_dur and speed flag stay as the   *)
(* analysis left them.                                                     *)
C19_PlannerFrame ==
    [][ (ppc = "analyzed" \/ ppc = "scan") =>
          /\ Len(df') = Len(df)
          /\ \A i \in 1..Len(df) : WithoutCut(df'[i]) = WithoutCut(df[i]) ]_vars

\* planning is over and merge_rows has closed a chunk on a line that is too
\* fast and is no natural pause
C19_Witness ==
    /\ ppc = "done"
    /\ \E i \in 1..Len(df) :
         /\ df[i].cut_off = 1
         /\ df[i].if_too_fast > 0
         /\ df[i].gap < GLOBAL_TOLERANCE
         /\ df[i].tol_dur = df[i].duration + df[i].tolerance

----------------------------------------------------------------------------
(* Properties of check_file_exists, checked under SpecGate *)

\* a call of the wrapped stage
StageCalled == wrapper_calls' = wrapper_calls + 1

(* C18: a call of a stage wrapped by check_file_exists enters the body of  *)
(* the stage if and only if the stage's output file does not exist at the  *)
(* time of the call; when the file exists the call returns at once, with   *)
(* no part of the stage run and nothing changed.                           *)
C18_StageSkippedIffOutputExists ==
    [][ StageCalled =>
          /\ body_runs' = body_runs + 1 <=> ~path_exists
          /\ body_runs' = body_runs <=> path_exists
          /\ path_exists =>
               /\ wpc' = "ready"
               /\ stage_work' = stage_work
               /\ path_exists' = path_exists ]_vars

\* the stage ran to its end once, and a later call found the file and did
\* nothing
C18_Witness ==
    /\ wpc = "ready" /\ path_exists
    /\ body_runs = 1 /\ stage_work = 2
    /\ wrapper_calls = 3

----------------------------------------------------------------------------
(* Properties of tts_main, checked under SpecSynth *)

\* every attempt of the retry loop has failed
AllAttemptsFailed == Len(failures) = tts_max_retries

(* C20: whenever all the attempts of tts_main for a clip have failed, by   *)
(* an error of the backend or by audio that cannot be used, tts_main has   *)
(* written the short silence file at the clip's path and returned          *)
(* normally.                                                               *)
C20_SilenceAfterAllFailures ==
    AllAttemptsFailed => tpc = "returned" /\ save_as = silence_ms

----------------------------------------------------------------------------
(* Properties of merge_rows within the scan, checked under SpecScan *)

\* the sums over the lines s .. s + k
EstSum(d, s, k) == SumSeq([i \in 1..k + 1 |-> d[s + i - 1].est_dur])
TolSum(d, s, k) == SumSeq([i \in 1..k + 1 |-> d[s + i - 1].tol_dur])
DurSum(d, s, k) == SumSeq([i \in 1..k + 1 |-> d[s + i - 1].duration])

\* the flag of the lines s .. s + k taken together
CombinedFlag(d, s, k) ==
    calc_if_too_fast(EstSum(d, s, k), TolSum(d, s, k), DurSum(d, s, k),
                     d[s + k].tolerance)

\* the k-th absorbed line ends the merge
StopsAt(d, s, k) ==
    \/ CombinedFlag(d, s, k) <= 0
    \/ k = 2
    \/ k + 1 = MAX_MERGE_COUNT
    \/ s + k = Len(d)

\* the number of lines a merge started at line s absorbs
Absorbed(d, s) ==
    CHOOSE k \in 1..(Len(d) - s) :
        StopsAt(d, s, k) /\ \A j \in 1..(k - 1) : ~StopsAt(d, s, j)

\* the scan is at a line from which it calls merge_rows
MergeInvoked ==
    /\ ppc = "scan" /\ idx < Len(df)
    /\ df[idx + 1].cut_off # 1
    /\ idx + 1 < Len(df)
    /\ (df[idx + 1].if_too_fast > 0 \/ df[idx + 2].if_too_fast > 0)

(* C21: merge_rows started at line s absorbs the lines after s one at a    *)
(* time, summing est_dur, tol_dur and duration and recomputing the         *)
(* combined flag after each, and stops at the first absorbed line whose    *)
(* combined flag is <= 0, or at the second absorbed line, or after         *)
(* MAX_MERGE_COUNT lines, or at the end of the table; that line gets       *)
(* cut_off = 1, no other mark changes, and the count returned is the       *)
(* number of lines from s to it.                                           *)
C21_MergeStops ==
    [][ MergeInvoked =>
          LET s == idx + 1
              k == Absorbed(df, s)
          IN /\ df'[s + k].cut_off = 1
             /\ \A i \in 1..Len(df) : i # s + k => df'[i].cut_off = df[i].cut_off
             /\ group' = [first |-> s, count |-> k + 1]
             /\ idx' = idx + k + 1 ]_vars

\* a merge went on past a first absorbed line whose combined flag was still
\* too fast and stopped on the second one, with lines left after it
C21_Witness ==
    /\ ppc = "scan" /\ group.count = 3
    /\ GroupLast < Len(df)
    /\ CombinedFlag(df, group.first, 1) > 0
    /\ CombinedFlag(df, group.first, 2) > 0
    /\ df[GroupLast].cut_off = 1

----------------------------------------------------------------------------
(* Progress of the scan, checked under SpecScanLive *)

\* the scan is inside its loop
Scanning == ppc = "scan" /\ idx < Len(df)

(* C28: every iteration of the scan of process_cutoffs either leaves the   *)
(* loop or advances the line index by at least 1 and at most 3; merge_rows *)
(* returns 2 or 3 whenever a further line exists, since the early stop at  *)
(* the second absorbed line comes before MAX_MERGE_COUNT can be reached;   *)
(* so the scan ends for every table and no merge group has more than 3     *)
(* lines.                                                                  *)
C28_ScanAdvances ==
    /\ [][ Scanning =>
             /\ ppc' = "done" \/ (idx' >= idx + 1 /\ idx' <= idx + 3)
             /\ MergeInvoked => (group'.count \in 2..3 /\ idx' = idx + group'.count)
             /\ group'.count <= 3 ]_vars
    /\ <>(ppc = "done")

\* a table of at least MAX_MERGE_COUNT lines that stay too fast however
\* many are taken together, merged from its first line
C28_Witness ==
    /\ ppc = "scan" /\ Len(df) >= MAX_MERGE_COUNT
    /\ group = [first |-> 1, count |-> 3]
    /\ \A k \in 1..(MAX_MERGE_COUNT - 1) : CombinedFlag(df, 1, k) > 0

----------------------------------------------------------------------------
(* The two phases of generate_tts_audio, checked under SpecTts *)

WarmupRows == 1..warmup_size
PoolRows   == (warmup_size + 1)..Len(task_result)

\* the warm-up loop has gone through all its rows
WarmupOver == \A r \in WarmupRows : row_calls[r] = <<"warmup">> /\ r < warm_i

(* C22: the first min(5, n) tasks are synthesized one at a time in table   *)
(* order; no task is handed to the pool before all of them are done; the   *)
(* pool gets exactly the remaining tasks; so no task is ever synthesized   *)
(* twice or by both phases, and when generate_tts_audio returns every task *)
(* has been synthesized exactly once.                                      *)
C22_WarmupBeforePool ==
    gpc \in {"warmup", "submit", "collect", "returned", "raised"} =>
        /\ \A r \in WarmupRows :
             /\ row_calls[r] \in {<<>>, <<"warmup">>}
             /\ futures[r] = "none"
             /\ row_calls[r] # <<>> =>
                  \A q \in 1..(r - 1) : row_calls[q] = <<"warmup">> /\ q < warm_i
        /\ \A r \in PoolRows :
             /\ row_calls[r] \in {<<>>, <<"pool">>}
             /\ futures[r] # "none" => WarmupOver
             /\ row_calls[r] # <<>> => WarmupOver
        /\ gpc = "warmup" => Running = {}
        /\ gpc = "collect" => \A r \in PoolRows : futures[r] # "none"
        /\ gpc = "returned" => \A r \in 1..Len(task_result) : Len(row_calls[r]) = 1

\* a batch with a full warm-up and at least two pool tasks has returned
C22_Witness ==
    /\ gpc = "returned"
    /\ warmup_size = WARMUP_SIZE
    /\ Cardinality(PoolRows) >= 2
    /\ \A r \in WarmupRows : row_calls[r] = <<"warmup">>
    /\ \A r \in PoolRows : row_calls[r] = <<"pool">>

----------------------------------------------------------------------------
(* The attempts of tts_main, checked under SpecSynth *)

\* a step in which the backend is invoked
BackendInvoked == backend_calls' = backend_calls + 1

(* C23: for one clip tts_main invokes the synthesis backend at most 3      *)
(* times and stops at the first attempt that leaves audio longer than      *)
(* 0.05 s; ask_gpt is called only at the start of the third (last)         *)
(* attempt, never before the first or second; and when the clip file is    *)
(* already there for a text of more than one character the backend is not  *)
(* invoked at all.                                                         *)
C23_BoundedAttempts ==
    /\ [](/\ backend_calls <= tts_max_retries
          /\ backend_calls <= tts_attempt + 1
          /\ Len(gpt_requests) <= 1
          /\ \A i \in 1..Len(gpt_requests) : gpt_requests[i] = tts_max_retries - 1
          /\ tpc = "loop" => save_as = -1)
    /\ [][ /\ (BackendInvoked /\ save_as' > min_valid_ms) =>
                (tpc' = "returned" /\ backend_calls' = tts_attempt + 1)
           /\ (BackendInvoked /\ tts_attempt < tts_max_retries - 1) =>
                gpt_requests' = <<>>
           /\ (tpc = "call" /\ tts_text = "normal" /\ save_as # -1) =>
                (tpc' = "returned" /\ backend_calls' = 0 /\ save_as' = save_as) ]_vars

\* the first two attempts failed, the text was corrected before the third
\* and the third gave usable audio
C23_Witness ==
    /\ tpc = "returned" /\ backend_calls = tts_max_retries
    /\ Len(failures) = tts_max_retries - 1
    /\ gpt_requests = <<tts_max_retries - 1>>
    /\ text_corrected
    /\ save_as \in UsableDurations

----------------------------------------------------------------------------
(* The persisted chunk table, checked under SpecScan *)

\* the planner's chunk that ends at line j: the lines after the cut_off = 1
\* line before j, up to j
ChunkEndingAt(j) ==
    LET before == {k \in 1..(j - 1) : df[k].cut_off = 1}
        first  == IF before = {} THEN 1
                  ELSE (CHOOSE k \in before : \A q \in before : q <= k) + 1
    IN [k \in 1..(j - first + 1) |-> first + k - 1]

\* the lines of all persisted chunks, one after the other
RECURSIVE PersistedLines(_)
PersistedLines(n) ==
    IF n = 0 THEN <<>> ELSE PersistedLines(n - 1) \o final_df[n].lines

(* C24: in the table dub_chunks_main persists, the lines of each chunk row *)
(* are exactly the planner's chunk ending at that cut_off = 1 line, so     *)
(* every subtitle line of the analyzed table is in exactly one persisted   *)
(* chunk, in order, none dropped or attached to a neighbouring chunk.      *)
C24_PersistedChunks ==
    ppc = "saved" =>
        /\ \A i \in 1..Len(final_df) :
              final_df[i].lines = ChunkEndingAt(final_df[i].number)
        /\ PersistedLines(Len(final_df)) = [k \in 1..Len(df) |-> k]

----------------------------------------------------------------------------
(* Order of the recorded intervals, checked under SpecRender *)

\* a <= b for two times w + n/d
FracLeq(a, b) ==
    \/ a.w < b.w
    \/ a.w = b.w /\ a.n * b.d <= b.n * a.d

\* the recorded intervals of the rows before row r, in table order
RECURSIVE RecordedUpTo(_)
RecordedUpTo(r) ==
    IF r = 0 THEN <<>> ELSE RecordedUpTo(r - 1) \o new_sub_times[r]

\* the rows whose chunks merge_chunks has finished
RowsDone == IF rpc = "done" THEN Len(tasks_df) ELSE index - 1

(* C25: in the table merge_chunks produces from lines in time order with   *)
(* non-negative gaps the recorded intervals never overlap: every clip's    *)
(* recorded start is >= the recorded end of the clip before it, within a   *)
(* chunk and from the last clip of a chunk to the first of the next.       *)
C25_NoOverlap ==
    rpc \in {"scan", "done"} =>
        LET rec == RecordedUpTo(RowsDone)
        IN \A k \in 1..(Len(rec) - 1) : FracLeq(rec[k].e, rec[k + 1].s)

(* C27: every interval [start, end] recorded in new_sub_times has          *)
(* start <= end, also after the overflow correction has set the end of     *)
(* the chunk's last clip to the nominal chunk end, for every overflow of   *)
(* at most 0.6 s and every length of the last clip.                        *)
C27_StartNotAfterEnd ==
    \A r \in 1..Len(new_sub_times) : \A k \in 1..Len(new_sub_times[r]) :
        FracLeq(new_sub_times[r][k].s, new_sub_times[r][k].e)

----------------------------------------------------------------------------
(* The speed process_chunk chooses, checked under SpecSolve *)

\* the speed of the chunk at hand before round(speed_factor, 3)
ExactSpeed == process_chunk(chunk_df, accept_speed, min_speed).exact

\* the chunks the fit is claimed for
RegularChunk ==
    /\ \A i \in 1..Len(chunk_df) : chunk_df[i].gap >= 0 /\ chunk_df[i].tolerance >= 0
    /\ DurationsSum > speed_var_error
    /\ TolDurs > speed_var_error

\* x / ExactSpeed <= tol_durs - 0.1, for a finite positive speed
FitsTolerated(x) ==
    /\ ExactSpeed.n > 0 /\ ExactSpeed.d > 0
    /\ x * ExactSpeed.d <= (TolDurs - speed_var_error) * ExactSpeed.n

(* C26: for every chunk with non-negative gaps and tolerances, durations   *)
(* > 0.1 and tol_durs > 0.1, the speed process_chunk chooses, before it is *)
(* rounded to 3 decimals, makes the ideal span fit the tolerated duration  *)
(* less 0.1 s: (chunk_durs + all_gaps) / speed <= tol_durs - 0.1 when      *)
(* keep_gaps is true and chunk_durs / speed <= tol_durs - 0.1 when it is   *)
(* false, in all four regimes.                                             *)
C26_SpeedFitsTolerance ==
    (regime # 0 /\ RegularChunk) =>
        /\ keep_gaps => FitsTolerated(ChunkDurs + AllGaps)
        /\ ~keep_gaps => FitsTolerated(ChunkDurs)

\* a regular chunk of two lines with a gap between them, solved by regime 3:
\* faster than the floor, gaps kept, the last line's tolerance used
C26_Witness ==
    /\ regime = 3 /\ RegularChunk
    /\ Len(chunk_df) = 2 /\ AllGaps > 0
    /\ ExactSpeed.n * 1000 > min_speed * ExactSpeed.d
    /\ speed_factor.kind = "num"

(* C30: for every chunk table that can reach it, with any real_dur (the    *)
(* failure mark -1 included) and any tol_dur (values at or below 0.1 s     *)
(* included), process_chunk returns a finite, strictly positive speed      *)
(* factor.                                                                 *)
C30_SpeedIsValidRate ==
    regime # 0 => (speed_factor.kind = "num" /\ speed_factor.milli > 0)

----------------------------------------------------------------------------
(* Order of the aligned intervals, checked under SpecAlign *)

\* get_sentence_timestamps has returned its list
Aligned == apc # "idle" /\ Len(time_stamp_list) = Len(df_sentences)

(* C29: for a recognizer word list ordered in time and subtitle lines that *)
(* all align, the intervals get_sentence_timestamps returns are in         *)
(* non-decreasing time order: each line starts no earlier than the line    *)
(* before it, lines whose normalized text is empty included.               *)
C29_StartsInOrder ==
    Aligned =>
        \A i \in 1..(Len(time_stamp_list) - 1) :
            time_stamp_list[i + 1][1] >= time_stamp_list[i][1]
====
